---- MODULE Spec2Model ----
(***************************************************************************)
(* Model of the goteway API gateway (mstgnz/goteway): the middleware       *)
(* pipeline (Chain, logging, rate limiting, authentication, plugins), the  *)
(* route build in Gateway.initialize and the per-request execution of the  *)
(* composed handler.                                                       *)
(*                                                                         *)
(* Strings that the code inspects byte by byte (header values, user names, *)
(* passwords, API keys) are sequences of byte values.  Names that the code *)
(* only compares as a whole (middleware names, methods, header names) are  *)
(* TLA+ strings.                                                           *)
(***************************************************************************)
EXTENDS Integers, Sequences, FiniteSets, TLC

VARIABLES
    config,     \* the route configuration the handler was built from (read-only)
    route,      \* the Route: Path, Methods and the composed Handler (steps, outermost first)
    manager,    \* the plugin Manager's plugins map: name -> plugin instance
    gateway,    \* the Gateway's life cycle: where main is (pc) and initialize's loop index (i)
    limiter,    \* the RateLimiter instance: limit, window and the clients map
    mu,         \* limiter.mu: 0 when free, else the request holding it
    clock,      \* the last reading of time.Now(), in ticks
    req,        \* per request: the request, its response writer and its position in the handler
    decisions   \* history: the limiter's decisions, in the order they were taken

vars == <<config, route, manager, gateway, limiter, mu, clock, req, decisions>>

----------------------------------------------------------------------------
(* Bounds of the model *)

MaxReq == 3
MaxInFlight == 2
MaxTime == 2
MaxLimit == 2
MaxWindow == 1
MaxNegLimit == 1
MaxGatewayReq == 2
MaxMiddlewares == 2
MaxChain == 3
MaxPayload == 3
MaxWrites == 2
MaxPluginReq == 1

Reqs == 1..MaxReq

----------------------------------------------------------------------------
(* Program constants *)

StatusOK == 200
StatusUnauthorized == 401
StatusMethodNotAllowed == 405
StatusTooManyRequests == 429
StatusBadGateway == 502
StatusNotFound == 404
StatusMovedPermanently == 301
StatusSwitchingProtocols == 101

ChColon == 58
ChPad == 61
ChLF == 10
ChCR == 13
ChBang == 33
ChLowerA == 97
ChLowerP == 112

\* "Basic " (auth.go: const prefix)
prefix == <<66, 97, 115, 105, 99, 32>>
\* "basic " and "Bearer ": schemes that are not the prefix
lowerBasic == <<98, 97, 115, 105, 99, 32>>
bearer == <<66, 101, 97, 114, 101, 114, 32>>

----------------------------------------------------------------------------
(* Byte strings *)

Range(s) == {s[i] : i \in 1..Len(s)}

\* strings.HasPrefix
HasPrefix(s, p) == Len(s) >= Len(p) /\ SubSeq(s, 1, Len(p)) = p

\* s[n:]
Drop(s, n) == SubSeq(s, n + 1, Len(s))

\* mutant: cut at the last separator
SplitN2_LastSep(s, sep) ==
    IF sep \in Range(s)
    THEN LET i == CHOOSE k \in 1..Len(s) :
                      s[k] = sep /\ \A j \in (k + 1)..Len(s) : s[j] # sep
         IN  <<SubSeq(s, 1, i - 1), SubSeq(s, i + 1, Len(s))>>
    ELSE <<s>>

\* strings.SplitN(s, ":", 2): at most two parts, cut at the first separator
SplitN2(s, sep) ==
    IF sep \in Range(s)
    THEN LET i == CHOOSE k \in 1..Len(s) :
                      s[k] = sep /\ \A j \in 1..(k - 1) : s[j] # sep
         IN  <<SubSeq(s, 1, i - 1), SubSeq(s, i + 1, Len(s))>>
    ELSE <<s>>

(* encoding/base64, StdEncoding: the alphabet A-Z a-z 0-9 + /, padded with =, *)
(* CR and LF ignored, trailing bits of the last quantum not checked.          *)

\* value of an alphabet character, -1 for a character outside the alphabet
Sextet(c) ==
    IF c \in 65..90 THEN c - 65
    ELSE IF c \in 97..122 THEN c - 71
    ELSE IF c \in 48..57 THEN c + 4
    ELSE IF c = 43 THEN 62
    ELSE IF c = 47 THEN 63
    ELSE -1

\* alphabet character of a value 0..63
EncChar(v) ==
    IF v < 26 THEN v + 65
    ELSE IF v < 52 THEN v + 71
    ELSE IF v < 62 THEN v - 4
    ELSE IF v = 62 THEN 43
    ELSE 47

StripNewlines(s) == SelectSeq(s, LAMBDA c : c # ChCR /\ c # ChLF)

RECURSIVE DecodeQuanta(_)
DecodeQuanta(s) ==
    IF Len(s) = 0 THEN [err |-> FALSE, out |-> <<>>]
    ELSE IF Len(s) < 4 THEN [err |-> TRUE, out |-> <<>>]
    ELSE LET a == Sextet(s[1])
             b == Sextet(s[2])
             c == Sextet(s[3])
             d == Sextet(s[4])
             rest == Drop(s, 4)
         IN  IF a < 0 \/ b < 0 THEN [err |-> TRUE, out |-> <<>>]
             ELSE IF s[3] = ChPad
             THEN IF s[4] = ChPad /\ Len(rest) = 0
                  THEN [err |-> FALSE, out |-> <<a * 4 + (b \div 16)>>]
                  ELSE [err |-> TRUE, out |-> <<>>]
             ELSE IF c < 0 THEN [err |-> TRUE, out |-> <<>>]
             ELSE IF s[4] = ChPad
             THEN IF Len(rest) = 0
                  THEN [err |-> FALSE,
                        out |-> <<a * 4 + (b \div 16), (b % 16) * 16 + (c \div 4)>>]
                  ELSE [err |-> TRUE, out |-> <<>>]
             ELSE IF d < 0 THEN [err |-> TRUE, out |-> <<>>]
             ELSE LET r == DecodeQuanta(rest)
                  IN  [err |-> r.err,
                       out |-> IF r.err THEN <<>>
                               ELSE <<a * 4 + (b \div 16),
                                      (b % 16) * 16 + (c \div 4),
                                      (c % 4) * 64 + d>> \o r.out]

\* base64.StdEncoding.DecodeString
DecodeString(s) == DecodeQuanta(StripNewlines(s))

\* base64.StdEncoding.EncodeToString, as http.Request.SetBasicAuth uses it
RECURSIVE EncodeToString(_)
EncodeToString(p) ==
    IF Len(p) = 0 THEN <<>>
    ELSE IF Len(p) = 1
    THEN <<EncChar(p[1] \div 4), EncChar((p[1] % 4) * 16), ChPad, ChPad>>
    ELSE IF Len(p) = 2
    THEN <<EncChar(p[1] \div 4), EncChar((p[1] % 4) * 16 + (p[2] \div 16)),
           EncChar((p[2] % 16) * 4), ChPad>>
    ELSE <<EncChar(p[1] \div 4), EncChar((p[1] % 4) * 16 + (p[2] \div 16)),
           EncChar((p[2] % 16) * 4 + (p[3] \div 64)), EncChar(p[3] % 64)>>
         \o EncodeToString(Drop(p, 3))

----------------------------------------------------------------------------
(* Requests' headers: a map from header name to value; http.Header.Get      *)
(* returns the empty string for a name the map does not hold.               *)

HeaderGet(h, k) == IF k \in DOMAIN h THEN h[k] ELSE <<>>

----------------------------------------------------------------------------
(* Authenticators (pkg/middleware/auth.go) *)

NewBasicAuthenticator(username, password) ==
    [type |-> "basic", username |-> username, password |-> password,
     header |-> "", key |-> <<>>]

NewAPIKeyAuthenticator(header, key) ==
    [type |-> "apikey", username |-> <<>>, password |-> <<>>,
     header |-> header, key |-> key]

BasicAuthenticator_Authenticate(a, h) ==
    LET auth == HeaderGet(h, "Authorization")
    IN  IF auth = <<>> THEN FALSE
        ELSE IF ~HasPrefix(auth, prefix) THEN FALSE
        ELSE LET dec == DecodeString(Drop(auth, Len(prefix)))
             IN  IF dec.err THEN FALSE
                 ELSE LET pair == SplitN2(dec.out, ChColon)
                      IN  IF Len(pair) # 2 THEN FALSE
                          ELSE pair[1] = a.username /\ pair[2] = a.password

APIKeyAuthenticator_Authenticate(a, h) ==
    LET key == HeaderGet(h, a.header)
    IN  key = a.key

\* Authenticator.Authenticate: dispatch on the implementation
Authenticate(a, h) ==
    IF a.type = "basic" THEN BasicAuthenticator_Authenticate(a, h)
    ELSE APIKeyAuthenticator_Authenticate(a, h)

----------------------------------------------------------------------------
(* Handlers.  An http.Handler built by wrapping is the sequence of its      *)
(* steps, outermost first; the last element is the innermost handler.       *)

NoAuthenticator == [type |-> "none", username |-> <<>>, password |-> <<>>,
                    header |-> "", key |-> <<>>]

Step(kind, name, idx, authn) ==
    [kind |-> kind, name |-> name, idx |-> idx, authn |-> authn]

\* m(next): the handler that runs step m around next
Wrap(m, next) == <<m>> \o next

\* mutant: the loop wraps from the first middleware to the last
RECURSIVE ChainLoopForward(_, _, _)
ChainLoopForward(middlewares, i, next) ==
    IF i > Len(middlewares) THEN next
    ELSE ChainLoopForward(middlewares, i + 1, <<middlewares[i]>> \o next)

Chain_Forward(middlewares, next) == ChainLoopForward(middlewares, 1, next)

\* Chain(middlewares...)(next)
RECURSIVE ChainLoop(_, _, _)
ChainLoop(middlewares, i, next) ==
    IF i < 1 THEN next
    ELSE ChainLoop(middlewares, i - 1, Wrap(middlewares[i], next))

Chain_Wrapped(middlewares, next) ==
    Wrap(Step("test", "chain", 0, NoAuthenticator),
         ChainLoop(middlewares, Len(middlewares), next))

Chain(middlewares, next) == ChainLoop(middlewares, Len(middlewares), next)

\* Apply(h, m)
Apply(h, m) == Wrap(m, h)

----------------------------------------------------------------------------
(* Rate limiter (RateLimiter, NewRateLimiter) *)

Clients == {"10.0.0.1:1000", "10.0.0.1:2000"}

NewRateLimiter(limit, window) ==
    [limit |-> limit, window |-> window, clients |-> << >>]

\* limiter.clients[clientIP]: the nil slice for a key the map does not hold
ClientRequests(l, clientIP) ==
    IF clientIP \in DOMAIN l.clients THEN l.clients[clientIP] ELSE <<>>

\* mutant: entries are never dropped
Prune_KeepAll(l, clientIP, now) == ClientRequests(l, clientIP)

\* the loop that keeps the timestamps no older than the window
Prune(l, clientIP, now) ==
    SelectSeq(ClientRequests(l, clientIP), LAMBDA t : now - t <= l.window)

\* mutant: the limit itself is still admitted
LimitExceeded_OffByOne(l, requests) == Len(requests) > l.limit

\* mutant: a limit of zero or less means no limit
LimitExceeded_ZeroUnlimited(l, requests) ==
    l.limit > 0 /\ Len(requests) >= l.limit

\* len(requests) >= limiter.limit
LimitExceeded(l, requests) == Len(requests) >= l.limit

\* mutant: the key is the host without the port, which the clients share
StoreClient_HostOnly(l, clientIP, v) ==
    [l EXCEPT !.clients = [c \in Clients |-> v]]

\* mutant: storing a client's list drops the other clients' entries
StoreClient_Evicts(l, clientIP, v) ==
    [l EXCEPT !.clients = [c \in {clientIP} |-> v]]

\* limiter.clients[clientIP] = v
StoreClient(l, clientIP, v) ==
    [l EXCEPT !.clients =
        [c \in (DOMAIN l.clients) \cup {clientIP} |->
            IF c = clientIP THEN v ELSE l.clients[c]]]

----------------------------------------------------------------------------
(* Plugins (pkg/plugin) and the registry the gateway fills in New.          *)
(* New registers the two plugins and never calls Initialize, so their log   *)
(* field is nil and their settings are the constructors' defaults.          *)

\* "*"
Star == <<42>>

NewCORSPlugin ==
    [type |-> "CORSPlugin", name |-> "cors",
     allowedOrigins |-> <<Star>>,
     allowedMethods |-> <<"GET", "POST", "PUT", "DELETE", "OPTIONS">>,
     allowedHeaders |-> <<"Content-Type", "Authorization">>,
     logSet |-> FALSE]

NewExamplePlugin ==
    [type |-> "ExamplePlugin", name |-> "example",
     allowedOrigins |-> <<>>, allowedMethods |-> <<>>,
     allowedHeaders |-> <<>>, logSet |-> FALSE]

\* &MockPlugin{name: name} (plugin_test.go)
MockPlugin(name) ==
    [type |-> "MockPlugin", name |-> name,
     allowedOrigins |-> <<>>, allowedMethods |-> <<>>,
     allowedHeaders |-> <<>>, logSet |-> FALSE]

\* CORSPlugin.Initialize(config, log) with a logger: origins, methods and
\* headers are config["allowedOrigins"], config["allowedMethods"] and
\* config["allowedHeaders"]; the defaults are kept when a key is absent
NoOrigins == [set |-> FALSE, list |-> <<>>]

CORSPlugin_Initialize(p, origins, methods, headers) ==
    [p EXCEPT !.logSet = TRUE,
              !.allowedOrigins = IF origins.set THEN origins.list ELSE @,
              !.allowedMethods = IF methods.set THEN methods.list ELSE @,
              !.allowedHeaders = IF headers.set THEN headers.list ELSE @]

\* ExamplePlugin.Initialize(config, log) with a logger
ExamplePlugin_Initialize(p) == [p EXCEPT !.logSet = TRUE]

\* NewManager: no plugin registered
NewManager == << >>

\* mutant: the registration drops the plugins registered before
RegisterPlugin_Replace(m, p) == [n \in {p.name} |-> p]

\* Manager.RegisterPlugin
RegisterPlugin(m, p) ==
    [n \in (DOMAIN m) \cup {p.name} |-> IF n = p.name THEN p ELSE m[n]]

\* the gateway's pluginManager after New
pluginManager ==
    RegisterPlugin(RegisterPlugin(NewManager, NewCORSPlugin), NewExamplePlugin)

\* Manager.GetPlugin: ok
GetPluginOk(m, name) == name \in DOMAIN m

\* Manager.GetPlugin: the plugin and ok; the nil plugin for an unknown name
NilPlugin ==
    [type |-> "nil", name |-> "",
     allowedOrigins |-> <<>>, allowedMethods |-> <<>>,
     allowedHeaders |-> <<>>, logSet |-> FALSE]

GetPlugin(m, name) ==
    IF name \in DOMAIN m THEN [plugin |-> m[name], ok |-> TRUE]
    ELSE [plugin |-> NilPlugin, ok |-> FALSE]

----------------------------------------------------------------------------
(* Gateway.initialize: the handler of one configured route *)

NoRateLimit == [set |-> FALSE, Limit |-> 0, Window |-> 0]
NoAuth == [set |-> FALSE, Type |-> "", Config |-> << >>]

\* routeConfig.Auth.Config[k] for a key holding a byte string
ConfigBytes(m, k) == IF k \in DOMAIN m THEN m[k] ELSE <<>>
\* routeConfig.Auth.Config["header"]
ConfigName(m, k) == IF k \in DOMAIN m THEN m[k] ELSE ""

\* the innermost handler of a route: method check, path rewrite, proxy
ProxyHandler == <<Step("proxy", "proxy", 0, NoAuthenticator)>>

\* the authenticator the "auth" case builds; none for an unsupported type
NewAuthenticator(auth) ==
    IF auth.Type = "basic"
    THEN NewBasicAuthenticator(ConfigBytes(auth.Config, "username"),
                               ConfigBytes(auth.Config, "password"))
    ELSE IF auth.Type = "apikey"
    THEN NewAPIKeyAuthenticator(ConfigName(auth.Config, "header"),
                                ConfigBytes(auth.Config, "key"))
    ELSE NoAuthenticator

\* mutant: a listed step is installed although its configuration block is
\* missing, with an empty configuration
AddMiddleware_NilBlockInstalls(rc, i, h) ==
    LET middlewareName == rc.Middlewares[i]
    IN  IF GetPluginOk(pluginManager, middlewareName)
        THEN Wrap(Step("plugin", middlewareName, i, NoAuthenticator), h)
        ELSE IF middlewareName = "logging"
        THEN Wrap(Step("logging", middlewareName, i, NoAuthenticator), h)
        ELSE IF middlewareName = "ratelimit"
        THEN Wrap(Step("ratelimit", middlewareName, i, NoAuthenticator), h)
        ELSE IF middlewareName = "auth"
        THEN IF rc.Auth.set
             THEN IF NewAuthenticator(rc.Auth) # NoAuthenticator
                  THEN Wrap(Step("auth", middlewareName, i, NewAuthenticator(rc.Auth)), h)
                  ELSE h
             ELSE Wrap(Step("auth", middlewareName, i,
                            NewBasicAuthenticator(<<>>, <<>>)), h)
        ELSE h

\* mutant: an unknown name discards the steps installed before it
AddMiddleware_UnknownResets(rc, i, h) ==
    LET middlewareName == rc.Middlewares[i]
    IN  IF GetPluginOk(pluginManager, middlewareName)
        THEN Wrap(Step("plugin", middlewareName, i, NoAuthenticator), h)
        ELSE IF middlewareName = "logging"
        THEN Wrap(Step("logging", middlewareName, i, NoAuthenticator), h)
        ELSE IF middlewareName = "ratelimit"
        THEN IF rc.RateLimit.set
             THEN Wrap(Step("ratelimit", middlewareName, i, NoAuthenticator), h)
             ELSE h
        ELSE IF middlewareName = "auth"
        THEN IF rc.Auth.set
             THEN IF NewAuthenticator(rc.Auth) # NoAuthenticator
                  THEN Wrap(Step("auth", middlewareName, i, NewAuthenticator(rc.Auth)), h)
                  ELSE h
             ELSE h
        ELSE ProxyHandler

\* one iteration of the "Add middlewares" loop
AddMiddleware(rc, i, h) ==
    LET middlewareName == rc.Middlewares[i]
    IN  IF GetPluginOk(pluginManager, middlewareName)
        THEN Wrap(Step("plugin", middlewareName, i, NoAuthenticator), h)
        ELSE IF middlewareName = "logging"
        THEN Wrap(Step("logging", middlewareName, i, NoAuthenticator), h)
        ELSE IF middlewareName = "ratelimit"
        THEN IF rc.RateLimit.set
             THEN Wrap(Step("ratelimit", middlewareName, i, NoAuthenticator), h)
             ELSE h
        ELSE IF middlewareName = "auth"
        THEN IF rc.Auth.set
             THEN IF NewAuthenticator(rc.Auth) # NoAuthenticator
                  THEN Wrap(Step("auth", middlewareName, i, NewAuthenticator(rc.Auth)), h)
                  ELSE h
             ELSE h
        ELSE h

RECURSIVE AddMiddlewares(_, _, _)
AddMiddlewares(rc, i, h) ==
    IF i > Len(rc.Middlewares) THEN h
    ELSE AddMiddlewares(rc, i + 1, AddMiddleware(rc, i, h))

\* mutant: the method check and proxy run before the middlewares
initialize_MethodCheckFirst(rc) ==
    [Path |-> rc.Path, Methods |-> rc.Methods,
     Handler |-> ProxyHandler \o AddMiddlewares(rc, 1, <<>>)]

\* the Route that initialize stores for a route configuration
initialize(rc) ==
    [Path |-> rc.Path, Methods |-> rc.Methods,
     Handler |-> AddMiddlewares(rc, 1, ProxyHandler)]

\* the limiter that initialize creates for the route's ratelimit step
RouteLimiter(rc) ==
    IF rc.RateLimit.set
    THEN NewRateLimiter(rc.RateLimit.Limit, rc.RateLimit.Window)
    ELSE NewRateLimiter(0, 0)

----------------------------------------------------------------------------
(* Requests.  Each request is served by its own goroutine, which runs the   *)
(* nested handlers: pc and depth give the goroutine's position.             *)
(*   "call"    handler number depth has just been invoked                   *)
(*   "locked"  rate-limit step: holds limiter.mu                            *)
(*   "pruned"  rate-limit step: has read the clock and pruned               *)
(*   "reject"  rate-limit step: released the lock, about to write 429       *)
(*   "forward" innermost handler: waiting for the backend                   *)
(*   "ret"     handler number depth+1 has returned into handler depth       *)
(*   "done"    the outermost handler has returned                           *)
(*   "panic"   the goroutine panicked; net/http drops the connection        *)

NoHeaders == [k \in {} |-> <<>>]

IdleReq ==
    [pc |-> "idle", depth |-> 0,
     RemoteAddr |-> "", Method |-> "", Path |-> <<>>, Header |-> NoHeaders,
     conn |-> "open",       \* the client's connection: "open" or "closed"
     pattern |-> <<>>,      \* the mux pattern whose handler serves the request
     status |-> 0,          \* the status of the response; 0: none written
     rw |-> <<>>,           \* per logging step: its responseWriter.statusCode
     respHeader |-> {},     \* names of the response headers set
     respValue |-> NoHeaders,   \* the values of the CORS response headers
     fwdPath |-> <<>>,      \* r.URL.Path as handed to the proxy
     backendPath |-> <<>>,  \* the path of the request the proxy sends out
     now |-> 0, requests |-> <<>>,   \* locals of the rate-limit step
     authResult |-> "none", \* what authenticator.Authenticate returned
     logged |-> <<>>,       \* status codes of the request's log records
     written |-> <<>>,      \* history: the codes of the WriteHeader calls, in order
     trace |-> <<>>]        \* handler entries and exits, in order

Handler == route.Handler

CurStep(r) == Handler[req[r].depth]

At(r, pc, kind) ==
    /\ req[r].pc = pc
    /\ req[r].depth \in 1..Len(Handler)
    /\ CurStep(r).kind = kind

Event(ev, s) == [ev |-> ev, name |-> s.name, idx |-> s.idx]

\* the handler at rq.depth starts to run
Entered(rq) ==
    [rq EXCEPT !.trace = Append(@, Event("in", Handler[rq.depth]))]

\* next.ServeHTTP(w, r) from the handler at rq.depth
CallNext(rq) ==
    [rq EXCEPT !.pc = "call", !.depth = @ + 1]

\* the handler at rq.depth returns to its caller
Returned(rq) ==
    [rq EXCEPT !.trace = Append(@, Event("out", Handler[rq.depth])),
               !.depth = @ - 1,
               !.pc = IF rq.depth = 1 THEN "done" ELSE "ret"]

\* w.WriteHeader(code) by the handler at rq.depth: every logging wrapper
\* around it records the code (responseWriter.WriteHeader) and passes it
\* on; the server's writer keeps the first code it is given.
WriteHeader(rq, code) ==
    [rq EXCEPT !.rw = [i \in DOMAIN rq.rw |->
                          IF i < rq.depth /\ Handler[i].kind = "logging"
                          THEN code ELSE rq.rw[i]],
               !.status = IF @ = 0 THEN code ELSE @,
               !.written = Append(@, code)]

\* w.WriteHeader called once for each of the codes, in order
RECURSIVE WriteHeaders(_, _)
WriteHeaders(rq, codes) ==
    IF codes = <<>> THEN rq
    ELSE WriteHeaders(WriteHeader(rq, Head(codes)), Tail(codes))

\* http.Error(w, msg, code)
HttpError(rq, code) == WriteHeader(rq, code)

SetHeaders(rq, names) == [rq EXCEPT !.respHeader = @ \cup names]

\* a request arrives and the server invokes the route's handler
Arrive(r, addr, method, path, header) ==
    /\ req[r].pc = "idle"
    /\ (IF r = 1 THEN TRUE ELSE req[r - 1].pc # "idle")
    /\ Cardinality({q \in Reqs : req[q].pc \notin {"idle", "done", "panic"}}) < MaxInFlight
    /\ req' = [req EXCEPT ![r] =
                  [IdleReq EXCEPT !.pc = "call", !.depth = 1,
                                  !.RemoteAddr = addr, !.Method = method,
                                  !.Path = path, !.Header = header,
                                  !.rw = [i \in 1..Len(Handler) |-> 0]]]
    /\ UNCHANGED <<config, route, manager, gateway, limiter, mu, clock, decisions>>

\* a handler without code after next.ServeHTTP returns
Return(r) ==
    /\ req[r].pc = "ret"
    /\ CurStep(r).kind # "logging"
    /\ req' = [req EXCEPT ![r] = Returned(@)]
    /\ UNCHANGED <<config, route, manager, gateway, limiter, mu, clock, decisions>>

(* Test middlewares and final handler (middleware_test.go, ratelimit_test.go, *)
(* auth_test.go): a middleware adds its header and calls next; the final      *)
(* handler writes 200.                                                        *)

TestMiddleware(r) ==
    /\ At(r, "call", "test")
    /\ req' = [req EXCEPT ![r] =
                  CallNext(SetHeaders(Entered(@), {CurStep(r).name}))]
    /\ UNCHANGED <<config, route, manager, gateway, limiter, mu, clock, decisions>>

FinalHandler(r) ==
    /\ At(r, "call", "final")
    /\ req' = [req EXCEPT ![r] = Returned(WriteHeader(Entered(@), StatusOK))]
    /\ UNCHANGED <<config, route, manager, gateway, limiter, mu, clock, decisions>>

\* a wrapped handler that calls w.WriteHeader for each of the codes, or
\* not at all, and returns
WritingHandler(r, codes) ==
    /\ At(r, "call", "writer")
    /\ req' = [req EXCEPT ![r] = Returned(WriteHeaders(Entered(@), codes))]
    /\ UNCHANGED <<config, route, manager, gateway, limiter, mu, clock, decisions>>

\* w implements http.Hijacker: the server's writer does, while the method
\* set of *responseWriter is Header, Write and WriteHeader only, so the
\* writer a handler gets inside a logging step does not.
Hijacker(rq) ==
    \A i \in 1..(rq.depth - 1) : Handler[i].kind # "logging"

\* httputil.ReverseProxy serving a protocol upgrade the backend accepts: it
\* hijacks the client's connection and relays 101, or answers 502 when the
\* writer cannot be hijacked
Upgrade(rq) ==
    WriteHeader(rq, IF Hijacker(rq) THEN StatusSwitchingProtocols
                    ELSE StatusBadGateway)

UpgradeHandler(r) ==
    /\ At(r, "call", "upgrade")
    /\ req' = [req EXCEPT ![r] = Returned(Upgrade(Entered(@)))]
    /\ UNCHANGED <<config, route, manager, gateway, limiter, mu, clock, decisions>>

(* LoggingMiddleware *)

LoggingServe(r) ==
    /\ At(r, "call", "logging")
    /\ req' = [req EXCEPT ![r] =
                  CallNext([Entered(@) EXCEPT !.rw[req[r].depth] = StatusOK])]
    /\ UNCHANGED <<config, route, manager, gateway, limiter, mu, clock, decisions>>

LoggingLog(r) ==
    /\ At(r, "ret", "logging")
    /\ req' = [req EXCEPT ![r] =
                  Returned([@ EXCEPT !.logged = Append(@, req[r].rw[req[r].depth])])]
    /\ UNCHANGED <<config, route, manager, gateway, limiter, mu, clock, decisions>>

(* RateLimitMiddleware *)

\* mutant: the lock does not exclude
RateLimitLock_NoMutex(r) ==
    /\ At(r, "call", "ratelimit")
    /\ mu' = r
    /\ req' = [req EXCEPT ![r] = [Entered(@) EXCEPT !.pc = "locked"]]
    /\ UNCHANGED <<config, route, manager, gateway, limiter, clock, decisions>>

RateLimitLock(r) ==
    /\ At(r, "call", "ratelimit")
    /\ mu = 0
    /\ mu' = r
    /\ req' = [req EXCEPT ![r] = [Entered(@) EXCEPT !.pc = "locked"]]
    /\ UNCHANGED <<config, route, manager, gateway, limiter, clock, decisions>>

\* time.Now() is monotonic: it returns the last reading or a later time
RateLimitPrune(r) ==
    /\ At(r, "locked", "ratelimit")
    /\ \E now \in clock..MaxTime :
          /\ clock' = now
          /\ req' = [req EXCEPT ![r] =
                        [@ EXCEPT !.pc = "pruned", !.now = now,
                                  !.requests = Prune(limiter, req[r].RemoteAddr, now)]]
    /\ UNCHANGED <<config, route, manager, gateway, limiter, mu, decisions>>

Decision(r, admit) ==
    [client |-> req[r].RemoteAddr, t |-> req[r].now, admit |-> admit, r |-> r]

\* mutant: the rejected attempt is recorded too
RateLimitExceeded_Recording(r) ==
    /\ At(r, "pruned", "ratelimit")
    /\ LimitExceeded(limiter, req[r].requests)
    /\ limiter' = StoreClient(limiter, req[r].RemoteAddr,
                              Append(req[r].requests, req[r].now))
    /\ mu' = 0
    /\ req' = [req EXCEPT ![r].pc = "reject"]
    /\ decisions' = Append(decisions, Decision(r, FALSE))
    /\ UNCHANGED <<config, route, manager, gateway, clock>>

RateLimitExceeded(r) ==
    /\ At(r, "pruned", "ratelimit")
    /\ LimitExceeded(limiter, req[r].requests)
    /\ mu' = 0
    /\ req' = [req EXCEPT ![r].pc = "reject"]
    /\ decisions' = Append(decisions, Decision(r, FALSE))
    /\ UNCHANGED <<config, route, manager, gateway, limiter, clock>>

\* mutant: the return after http.Error is missing
RateLimitReject_FallThrough(r) ==
    /\ At(r, "reject", "ratelimit")
    /\ req' = [req EXCEPT ![r] = CallNext(HttpError(@, StatusTooManyRequests))]
    /\ UNCHANGED <<config, route, manager, gateway, limiter, mu, clock, decisions>>

RateLimitReject(r) ==
    /\ At(r, "reject", "ratelimit")
    /\ req' = [req EXCEPT ![r] = Returned(HttpError(@, StatusTooManyRequests))]
    /\ UNCHANGED <<config, route, manager, gateway, limiter, mu, clock, decisions>>

\* mutant: the timestamp is appended to the stored list, not to the pruned one
RateLimitAdmit_Unpruned(r) ==
    /\ At(r, "pruned", "ratelimit")
    /\ ~LimitExceeded(limiter, req[r].requests)
    /\ limiter' = StoreClient(limiter, req[r].RemoteAddr,
                              Append(ClientRequests(limiter, req[r].RemoteAddr),
                                     req[r].now))
    /\ mu' = 0
    /\ req' = [req EXCEPT ![r] = CallNext(@)]
    /\ decisions' = Append(decisions, Decision(r, TRUE))
    /\ UNCHANGED <<config, route, manager, gateway, clock>>

\* mutant: the lock is still held when next is called
RateLimitAdmit_KeepsLock(r) ==
    /\ At(r, "pruned", "ratelimit")
    /\ ~LimitExceeded(limiter, req[r].requests)
    /\ limiter' = StoreClient(limiter, req[r].RemoteAddr,
                              Append(req[r].requests, req[r].now))
    /\ req' = [req EXCEPT ![r] = CallNext(@)]
    /\ decisions' = Append(decisions, Decision(r, TRUE))
    /\ UNCHANGED <<config, route, manager, gateway, mu, clock>>

RateLimitAdmit(r) ==
    /\ At(r, "pruned", "ratelimit")
    /\ ~LimitExceeded(limiter, req[r].requests)
    /\ limiter' = StoreClient(limiter, req[r].RemoteAddr,
                              Append(req[r].requests, req[r].now))
    /\ mu' = 0
    /\ req' = [req EXCEPT ![r] = CallNext(@)]
    /\ decisions' = Append(decisions, Decision(r, TRUE))
    /\ UNCHANGED <<config, route, manager, gateway, clock>>

(* AuthMiddleware *)

\* mutant: the return after http.Error is missing
AuthReject_FallThrough(r) ==
    /\ At(r, "call", "auth")
    /\ ~Authenticate(CurStep(r).authn, req[r].Header)
    /\ req' = [req EXCEPT ![r] =
                  CallNext(HttpError([Entered(@) EXCEPT !.authResult = "false"],
                                     StatusUnauthorized))]
    /\ UNCHANGED <<config, route, manager, gateway, limiter, mu, clock, decisions>>

AuthReject(r) ==
    /\ At(r, "call", "auth")
    /\ ~Authenticate(CurStep(r).authn, req[r].Header)
    /\ req' = [req EXCEPT ![r] =
                  Returned(HttpError([Entered(@) EXCEPT !.authResult = "false"],
                                     StatusUnauthorized))]
    /\ UNCHANGED <<config, route, manager, gateway, limiter, mu, clock, decisions>>

AuthPass(r) ==
    /\ At(r, "call", "auth")
    /\ Authenticate(CurStep(r).authn, req[r].Header)
    /\ req' = [req EXCEPT ![r] =
                  CallNext([Entered(@) EXCEPT !.authResult = "true"])]
    /\ UNCHANGED <<config, route, manager, gateway, limiter, mu, clock, decisions>>

(* Manager.Middleware and the plugins' ProcessRequest *)

CORSHeaders == {"Access-Control-Allow-Origin", "Access-Control-Allow-Methods",
                "Access-Control-Allow-Headers"}

\* mutant: every origin is allowed
OriginAllowed_Always(p, origin) == TRUE

OriginAllowed(p, origin) ==
    \E i \in 1..Len(p.allowedOrigins) :
        p.allowedOrigins[i] = Star \/ p.allowedOrigins[i] = origin

\* strings.Join(elems, sep), the result as the sequence of its pieces
RECURSIVE Join(_, _)
Join(elems, sep) ==
    IF elems = <<>> THEN <<>>
    ELSE IF Len(elems) = 1 THEN <<elems[1]>>
    ELSE <<elems[1], sep>> \o Join(Tail(elems), sep)

\* w.Header().Set(key, value)
HeaderSet(rq, key, value) ==
    [rq EXCEPT !.respHeader = @ \cup {key},
               !.respValue = [k \in (DOMAIN @) \cup {key} |->
                                 IF k = key THEN value ELSE @[k]]]

\* mutant: Access-Control-Allow-Origin is the allowed entry that matched
CORSSet_Matched(p, origin, rq) ==
    LET i == CHOOSE i \in 1..Len(p.allowedOrigins) :
                 p.allowedOrigins[i] = Star \/ p.allowedOrigins[i] = origin
    IN  HeaderSet(HeaderSet(HeaderSet(rq,
            "Access-Control-Allow-Origin", p.allowedOrigins[i]),
            "Access-Control-Allow-Methods", Join(p.allowedMethods, ", ")),
            "Access-Control-Allow-Headers", Join(p.allowedHeaders, ", "))

\* the three CORS headers of an allowed origin
CORSSet(p, origin, rq) ==
    HeaderSet(HeaderSet(HeaderSet(rq,
        "Access-Control-Allow-Origin", origin),
        "Access-Control-Allow-Methods", Join(p.allowedMethods, ", ")),
        "Access-Control-Allow-Headers", Join(p.allowedHeaders, ", "))

\* mutant: a preflight request is passed on like any other
CORSProcessRequest_NoPreflight(p, rq) ==
    LET origin == HeaderGet(rq.Header, "Origin")
    IN  IF origin = <<>> THEN CallNext(rq)
        ELSE IF ~OriginAllowed(p, origin)
        THEN IF p.logSet THEN CallNext(rq) ELSE [rq EXCEPT !.pc = "panic"]
        ELSE CallNext(CORSSet(p, origin, rq))

\* CORSPlugin.ProcessRequest, on the request record
CORSProcessRequest(p, rq) ==
    LET origin == HeaderGet(rq.Header, "Origin")
    IN  IF origin = <<>> THEN CallNext(rq)
        ELSE IF ~OriginAllowed(p, origin)
        THEN IF p.logSet THEN CallNext(rq) ELSE [rq EXCEPT !.pc = "panic"]
        ELSE IF rq.Method = "OPTIONS"
        THEN Returned(WriteHeader(CORSSet(p, origin, rq), StatusOK))
        ELSE CallNext(CORSSet(p, origin, rq))

\* ExamplePlugin.ProcessRequest, on the request record
ExampleProcessRequest(p, rq) ==
    LET rq1 == SetHeaders(rq, {"X-Example-Plugin", "X-Example-Timestamp"})
    IN  IF p.logSet THEN CallNext(rq1) ELSE [rq1 EXCEPT !.pc = "panic"]

\* MockPlugin.ProcessRequest (plugin_test.go), on the request record
MockProcessRequest(p, rq) == CallNext(SetHeaders(rq, {"X-Plugin-Processed"}))

\* plugin.ProcessRequest(w, r, next): the call is recorded in the trace and
\* dispatched on the implementation
ProcessRequest(p, rq) ==
    LET rq1 == [rq EXCEPT !.trace = Append(@, Event("process", Handler[rq.depth]))]
    IN  IF p.type = "CORSPlugin" THEN CORSProcessRequest(p, rq1)
        ELSE IF p.type = "ExamplePlugin" THEN ExampleProcessRequest(p, rq1)
        ELSE MockProcessRequest(p, rq1)

\* mutant: a missing plugin is an error answered by the adapter
PluginServe_FailClosed(r) ==
    /\ At(r, "call", "plugin")
    /\ LET got == GetPlugin(manager, CurStep(r).name)
           rq == Entered(req[r])
       IN  req' = [req EXCEPT ![r] =
                      IF ~got.ok THEN Returned(HttpError(rq, StatusNotFound))
                      ELSE ProcessRequest(got.plugin, rq)]
    /\ UNCHANGED <<config, route, manager, gateway, limiter, mu, clock, decisions>>

PluginServe(r) ==
    /\ At(r, "call", "plugin")
    /\ LET pluginName == CurStep(r).name
           got == GetPlugin(manager, pluginName)
           rq == Entered(req[r])
       IN  req' = [req EXCEPT ![r] =
                      IF ~got.ok THEN CallNext(rq)
                      ELSE ProcessRequest(got.plugin, rq)]
    /\ UNCHANGED <<config, route, manager, gateway, limiter, mu, clock, decisions>>

(* The route's innermost handler (Gateway.initialize) *)

\* strings.TrimPrefix(path, prefix) when the path has the prefix, "/" when
\* nothing is left; the path unchanged otherwise
RewritePath(path, routePath) ==
    IF HasPrefix(path, routePath)
    THEN IF Drop(path, Len(routePath)) = <<>> THEN <<"/">>
         ELSE Drop(path, Len(routePath))
    ELSE path

\* mutant: the proxy appends the request path to the target path as it is
singleJoiningSlash_Concat(a, b) == a \o b

\* the director of httputil.NewSingleHostReverseProxy(targetURL) joins the
\* target's path a and the request's path b with exactly one slash
singleJoiningSlash(a, b) ==
    LET aslash == a # <<>> /\ a[Len(a)] = "/"
        bslash == b # <<>> /\ b[1] = "/"
    IN  IF aslash /\ bslash THEN a \o Tail(b)
        ELSE IF ~aslash /\ ~bslash THEN a \o <<"/">> \o b
        ELSE a \o b

\* mutant: the return after http.Error is missing
MethodNotAllowed_FallThrough(r) ==
    /\ At(r, "call", "proxy")
    /\ req[r].Method \notin route.Methods
    /\ req' = [req EXCEPT ![r] =
                  [HttpError(Entered(@), StatusMethodNotAllowed)
                      EXCEPT !.pc = "forward",
                             !.fwdPath = RewritePath(req[r].Path, route.Path)]]
    /\ UNCHANGED <<config, route, manager, gateway, limiter, mu, clock, decisions>>

\* mutant: the 405 ends the request without returning through the callers
MethodNotAllowed_NoUnwind(r) ==
    /\ At(r, "call", "proxy")
    /\ req[r].Method \notin route.Methods
    /\ req' = [req EXCEPT ![r] =
                  [HttpError(Entered(@), StatusMethodNotAllowed)
                      EXCEPT !.pc = "done", !.depth = 0]]
    /\ UNCHANGED <<config, route, manager, gateway, limiter, mu, clock, decisions>>

MethodNotAllowed(r) ==
    /\ At(r, "call", "proxy")
    /\ req[r].Method \notin route.Methods
    /\ req' = [req EXCEPT ![r] =
                  Returned(HttpError(Entered(@), StatusMethodNotAllowed))]
    /\ UNCHANGED <<config, route, manager, gateway, limiter, mu, clock, decisions>>

ProxyForward(r) ==
    /\ At(r, "call", "proxy")
    /\ req[r].Method \in route.Methods
    /\ req' = [req EXCEPT ![r] =
                  [Entered(@) EXCEPT !.pc = "forward",
                                     !.fwdPath = RewritePath(req[r].Path, route.Path),
                                     !.backendPath =
                                         singleJoiningSlash(config.TargetPath,
                                             RewritePath(req[r].Path, route.Path))]]
    /\ UNCHANGED <<config, route, manager, gateway, limiter, mu, clock, decisions>>

\* the backend answers, or the proxy reports that it cannot be reached
ProxyRespond(r, code) ==
    /\ At(r, "forward", "proxy")
    /\ req' = [req EXCEPT ![r] = Returned(WriteHeader(@, code))]
    /\ UNCHANGED <<config, route, manager, gateway, limiter, mu, clock, decisions>>

----------------------------------------------------------------------------
(* Specifications *)

TestPath == <<"/", "f">>

TestConfig(names, rl) ==
    [Path |-> <<"/">>, Methods |-> {"GET"}, Middlewares |-> names,
     RateLimit |-> rl, Auth |-> NoAuth]

\* the handler is called directly, as by the tests: no server
NoServer == [pc |-> "direct", i |-> 0]

\* Start has built the mux and the server is listening
Listening == [pc |-> "listening", i |-> 0]

InitRest ==
    /\ mu = 0
    /\ clock = 0
    /\ req = [r \in Reqs |-> IdleReq]
    /\ decisions = <<>>

(* The limiter under the harness of ratelimit_test.go:                      *)
(* RateLimitMiddleware(NewRateLimiter(limit, window))(final handler).       *)

InitRateLimit ==
    /\ \E limit \in 0..MaxLimit, window \in 0..MaxWindow :
          /\ config = TestConfig(<<"ratelimit">>,
                                 [set |-> TRUE, Limit |-> limit, Window |-> window])
          /\ limiter = NewRateLimiter(limit, window)
    /\ route = [Path |-> config.Path, Methods |-> config.Methods,
                Handler |-> Apply(<<Step("final", "final", 0, NoAuthenticator)>>,
                                  Step("ratelimit", "ratelimit", 1, NoAuthenticator))]
    /\ manager = NewManager
    /\ gateway = NoServer
    /\ InitRest

\* the two clients are interchangeable: the first request comes from the first
FirstClient == "10.0.0.1:1000"
Addrs(r) == IF r = 1 THEN {FirstClient} ELSE Clients

NextRateLimit ==
    \E r \in Reqs :
          \/ \E addr \in Addrs(r) : Arrive(r, addr, "GET", TestPath, NoHeaders)
          \/ RateLimitLock(r)
          \/ RateLimitPrune(r)
          \/ RateLimitExceeded(r)
          \/ RateLimitReject(r)
          \/ RateLimitAdmit(r)
          \/ FinalHandler(r)
          \/ Return(r)

SpecRateLimit == InitRateLimit /\ [][NextRateLimit]_vars

\* the same harness with any limit an int field of the configuration can
\* hold: negative, zero or positive
InitRateLimitSigned ==
    /\ \E limit \in (0 - MaxNegLimit)..MaxLimit, window \in 0..MaxWindow :
          /\ config = TestConfig(<<"ratelimit">>,
                                 [set |-> TRUE, Limit |-> limit, Window |-> window])
          /\ limiter = NewRateLimiter(limit, window)
    /\ route = [Path |-> config.Path, Methods |-> config.Methods,
                Handler |-> Apply(<<Step("final", "final", 0, NoAuthenticator)>>,
                                  Step("ratelimit", "ratelimit", 1, NoAuthenticator))]
    /\ manager = NewManager
    /\ gateway = NoServer
    /\ InitRest

SpecRateLimitSigned == InitRateLimitSigned /\ [][NextRateLimit]_vars

(* The gateway: one configured route, its handler built by initialize, and  *)
(* requests dispatched to that handler.                                     *)

MiddlewareNames == {"logging", "ratelimit", "auth", "cors", "example", "unknown"}

\* lists of distinct middleware names
MiddlewareLists ==
    {l \in UNION {[1..n -> MiddlewareNames] : n \in 0..MaxMiddlewares} :
        \A i, j \in 1..Len(l) : i # j => l[i] # l[j]}

RoutePath == <<"/", "a">>

GatewayUser == <<ChLowerA>>
GatewayPassword == <<ChLowerP>>

\* the rateLimit blocks tried with a list: absent or set; only absent when
\* the list does not name "ratelimit", the one middleware that reads it
RateLimitBlocks(l) ==
    IF "ratelimit" \in Range(l)
    THEN {NoRateLimit, [set |-> TRUE, Limit |-> 1, Window |-> 1]}
    ELSE {NoRateLimit}

\* the auth blocks tried with a list: absent, basic or the unsupported jwt
AuthBlocks(l) ==
    IF "auth" \in Range(l)
    THEN {NoAuth,
          [set |-> TRUE, Type |-> "basic",
           Config |-> [username |-> GatewayUser, password |-> GatewayPassword]],
          [set |-> TRUE, Type |-> "jwt", Config |-> [k \in {} |-> <<>>]]}
    ELSE {NoAuth}

RouteConfigs ==
    UNION {{[Path |-> RoutePath, TargetPath |-> <<>>,
             Methods |-> {"GET"}, Middlewares |-> l,
             RateLimit |-> rl, Auth |-> ac] :
               rl \in RateLimitBlocks(l), ac \in AuthBlocks(l)} :
           l \in MiddlewareLists}

Credentials ==
    prefix \o EncodeToString(GatewayUser \o <<ChColon>> \o GatewayPassword)

Origin == <<111>>

GatewayHeaders ==
    {NoHeaders,
     [k \in {"Authorization"} |-> Credentials],
     [k \in {"Origin"} |-> Origin],
     [k \in {"Authorization", "Origin"} |->
         IF k = "Origin" THEN Origin ELSE Credentials]}

GatewayReqs == 1..MaxGatewayReq

Init ==
    /\ config \in RouteConfigs
    /\ route = initialize(config)
    /\ manager = pluginManager
    /\ limiter = RouteLimiter(config)
    /\ gateway = NoServer
    /\ InitRest

Next ==
    \E r \in GatewayReqs :
          \/ \E addr \in Addrs(r), method \in {"GET", "OPTIONS"}, h \in GatewayHeaders :
                Arrive(r, addr, method, RoutePath \o <<"/", "u">>, h)
          \/ LoggingServe(r)
          \/ LoggingLog(r)
          \/ RateLimitLock(r)
          \/ RateLimitPrune(r)
          \/ RateLimitExceeded(r)
          \/ RateLimitReject(r)
          \/ RateLimitAdmit(r)
          \/ AuthReject(r)
          \/ AuthPass(r)
          \/ PluginServe(r)
          \/ MethodNotAllowed(r)
          \/ ProxyForward(r)
          \/ \E code \in {StatusOK, StatusBadGateway} : ProxyRespond(r, code)
          \/ Return(r)

Spec == Init /\ [][Next]_vars

(* The started gateway: Start registers the route's handler in an           *)
(* http.ServeMux under the pattern route.Path and serves through the mux.   *)

\* http.ServeMux: a pattern ending in "/" names a subtree, any other
\* pattern names one path
ServeMuxMatch(pattern, path) ==
    IF pattern[Len(pattern)] = "/" THEN HasPrefix(path, pattern)
    ELSE path = pattern

\* http.ServeMux: the root of a registered subtree without its trailing
\* slash is redirected to the subtree
ServeMuxRedirect(pattern, path) ==
    pattern[Len(pattern)] = "/" /\ path \o <<"/">> = pattern

\* the mux finds the route's pattern and invokes its handler
ServeMuxServe(r, addr, method, path, header) ==
    /\ gateway.pc = "listening"
    /\ ServeMuxMatch(route.Path, path)
    /\ Arrive(r, addr, method, path, header)

\* the mux finds no pattern for the path and answers itself
ServeMuxNotFound(r, addr, method, path, header) ==
    /\ gateway.pc = "listening"
    /\ ~ServeMuxMatch(route.Path, path)
    /\ req[r].pc = "idle"
    /\ (IF r = 1 THEN TRUE ELSE req[r - 1].pc # "idle")
    /\ req' = [req EXCEPT ![r] =
                  [IdleReq EXCEPT !.pc = "done",
                                  !.RemoteAddr = addr, !.Method = method,
                                  !.Path = path, !.Header = header,
                                  !.status = IF ServeMuxRedirect(route.Path, path)
                                             THEN StatusMovedPermanently
                                             ELSE StatusNotFound]]
    /\ UNCHANGED <<config, route, manager, gateway, limiter, mu, clock, decisions>>

\* the requests whose handler is running
InFlight == {r \in Reqs : req[r].pc \notin {"idle", "done", "panic"}}

\* Gateway.Stop: g.server.Close() closes the listener and every open
\* connection at once; the handlers of the requests in flight keep running
\* and write to a closed connection
\* mutant: stopping tears the route table down
Stop_ClearsRoutes ==
    /\ gateway.pc = "listening"
    /\ gateway' = [gateway EXCEPT !.pc = "closed"]
    /\ route' = << >>
    /\ req' = [r \in Reqs |->
                  IF r \in InFlight THEN [req[r] EXCEPT !.conn = "closed"]
                  ELSE req[r]]
    /\ UNCHANGED <<config, manager, limiter, mu, clock, decisions>>

Stop ==
    /\ gateway.pc = "listening"
    /\ gateway' = [gateway EXCEPT !.pc = "closed"]
    /\ req' = [r \in Reqs |->
                  IF r \in InFlight THEN [req[r] EXCEPT !.conn = "closed"]
                  ELSE req[r]]
    /\ UNCHANGED <<config, route, manager, limiter, mu, clock, decisions>>

\* the response reached the client
Delivered(r) ==
    req[r].pc = "done" /\ req[r].status # 0 /\ req[r].conn = "open"

StartRoutePaths == {<<"/">>, <<"/", "a">>, <<"/", "a", "/">>}

\* TargetPath is the path of the parsed target: none, "/", "/x" or "/x/"
StartConfigs ==
    {[Path |-> p, TargetPath |-> t, Methods |-> {"GET"}, Middlewares |-> l,
      RateLimit |-> NoRateLimit, Auth |-> NoAuth] :
        p \in StartRoutePaths, l \in {<<>>, <<"logging">>},
        t \in {<<>>, <<"/">>, <<"/", "x">>, <<"/", "x", "/">>}}

StartPaths ==
    {<<"/">>, <<"/", "a">>, <<"/", "a", "/">>, <<"/", "a", "/", "u">>,
     <<"/", "a", "b">>}

InitStart ==
    /\ config \in StartConfigs
    /\ route = initialize(config)
    /\ manager = pluginManager
    /\ limiter = RouteLimiter(config)
    /\ gateway = Listening
    /\ InitRest

NextStart ==
    \E r \in GatewayReqs :
          \/ \E method \in {"GET", "OPTIONS"}, path \in StartPaths :
                \/ ServeMuxServe(r, FirstClient, method, path, NoHeaders)
                \/ ServeMuxNotFound(r, FirstClient, method, path, NoHeaders)
          \/ LoggingServe(r)
          \/ LoggingLog(r)
          \/ MethodNotAllowed(r)
          \/ ProxyForward(r)
          \/ \E code \in {StatusOK, StatusBadGateway} : ProxyRespond(r, code)
          \/ Stop

SpecStart == InitStart /\ [][NextStart]_vars

(* The gateway from New to Stop, as main drives it, with several routes:    *)
(* here config is cfg.Routes, the list of route configurations, and route   *)
(* is g.routes, the map from path to Route that initialize fills, and       *)
(* limiter holds the RateLimiter instance of each route's rate-limit step.  *)
(* The routes list no middleware or the rate limiter.                       *)

MaxRoutes == 2

\* url.Parse(target) fails: the string holds an ASCII control character
urlParseErr(target) ==
    \E i \in 1..Len(target) : target[i] < 32 \/ target[i] = 127

GoodTarget == <<ChLowerA>>
BadTarget == <<ChLF>>

NewRoutePaths == {<<"/", "a">>, <<"/", "a", "/">>}

NewRouteConfigs ==
    {[Path |-> p, Target |-> t, Methods |-> {"GET"}, Middlewares |-> l,
      RateLimit |-> rl, Auth |-> NoAuth] :
        p \in NewRoutePaths, t \in {GoodTarget, BadTarget},
        l \in {<<>>, <<"ratelimit">>},
        rl \in {[set |-> TRUE, Limit |-> 1, Window |-> 1]}}

\* New up to the call of g.initialize(): the configuration is loaded,
\* g.routes is the empty map and no limiter exists
InitNew ==
    /\ config \in UNION {[1..n -> NewRouteConfigs] : n \in 1..MaxRoutes}
    /\ route = << >>
    /\ manager = pluginManager
    /\ limiter = << >>
    /\ gateway = [pc |-> "initialize", i |-> 1]
    /\ InitRest

\* mutant: one limiter instance serves the rate-limit steps of all routes
LimiterKey_Shared(path) == <<>>

\* the limiter instance of a route's rate-limit step: the one that the
\* iteration of initialize for that route created
LimiterKey(path) == path

\* limiter := middleware.NewRateLimiter(...) in the iteration for rc, when
\* the route gets a rate-limit step
AddLimiter(ls, rc) ==
    IF "ratelimit" \in Range(rc.Middlewares) /\ rc.RateLimit.set
    THEN [k \in (DOMAIN ls) \cup {LimiterKey(rc.Path)} |->
             IF k = LimiterKey(rc.Path) THEN RouteLimiter(rc) ELSE ls[k]]
    ELSE ls

\* g.routes[route.Path] = route
AddRoute(routes, rt) ==
    [p \in (DOMAIN routes) \cup {rt.Path} |->
        IF p = rt.Path THEN rt ELSE routes[p]]

\* mutant: a route whose target does not parse is left out and the loop goes on
initializeRoute_SkipBad ==
    /\ gateway.pc = "initialize"
    /\ gateway.i <= Len(config)
    /\ gateway' = [gateway EXCEPT !.i = @ + 1]
    /\ route' = IF urlParseErr(config[gateway.i].Target) THEN route
                ELSE AddRoute(route, initialize(config[gateway.i]))
    /\ limiter' = IF urlParseErr(config[gateway.i].Target) THEN limiter
                  ELSE AddLimiter(limiter, config[gateway.i])
    /\ UNCHANGED <<config, manager, mu, clock, req, decisions>>

\* one iteration of initialize's loop over the routes: a target that does
\* not parse makes initialize return the error, and New returns (nil, err);
\* main then exits with log.Fatal
initializeRoute ==
    /\ gateway.pc = "initialize"
    /\ gateway.i <= Len(config)
    /\ IF urlParseErr(config[gateway.i].Target)
       THEN /\ gateway' = [gateway EXCEPT !.pc = "failed"]
            /\ route' = route
            /\ limiter' = limiter
       ELSE /\ gateway' = [gateway EXCEPT !.i = @ + 1]
            /\ route' = AddRoute(route, initialize(config[gateway.i]))
            /\ limiter' = AddLimiter(limiter, config[gateway.i])
    /\ UNCHANGED <<config, manager, mu, clock, req, decisions>>

\* the loop is over: initialize returns nil and New returns the gateway
NewReturn ==
    /\ gateway.pc = "initialize"
    /\ gateway.i > Len(config)
    /\ gateway' = [gateway EXCEPT !.pc = "built"]
    /\ UNCHANGED <<config, route, manager, limiter, mu, clock, req, decisions>>

\* Gateway.Start: every route of g.routes is registered in a new mux and the
\* server listens
Start ==
    /\ gateway.pc = "built"
    /\ gateway' = [gateway EXCEPT !.pc = "listening"]
    /\ UNCHANGED <<config, route, manager, limiter, mu, clock, req, decisions>>

\* main gets the stop signal before its goroutine has run Start: Stop finds
\* g.server nil and returns nil, main logs "Gateway stopped." and returns
StopUnstarted ==
    /\ gateway.pc = "built"
    /\ gateway' = [gateway EXCEPT !.pc = "stopped"]
    /\ UNCHANGED <<config, route, manager, limiter, mu, clock, req, decisions>>

\* main after Stop has closed the server: "Gateway stopped." is logged and
\* main returns, which ends the process
MainStopped ==
    /\ gateway.pc = "closed"
    /\ gateway' = [gateway EXCEPT !.pc = "stopped"]
    /\ UNCHANGED <<config, route, manager, limiter, mu, clock, req, decisions>>

\* the goroutine of main: ListenAndServe returns http.ErrServerClosed once
\* the server is closed, Start returns it, the error is not nil and
\* log.Fatal exits the process with status 1
StartFatal ==
    /\ gateway.pc = "closed"
    /\ gateway' = [gateway EXCEPT !.pc = "fatal"]
    /\ UNCHANGED <<config, route, manager, limiter, mu, clock, req, decisions>>

\* the process has not exited: its goroutines run
ProcessRuns == gateway.pc \notin {"stopped", "fatal"}

\* the registered patterns that match the path
ServeMuxPatterns(path) == {p \in DOMAIN route : ServeMuxMatch(p, path)}

\* http.ServeMux: of the matching patterns the longest wins
ServeMuxPattern(path) ==
    CHOOSE p \in ServeMuxPatterns(path) :
        \A q \in ServeMuxPatterns(path) : Len(q) <= Len(p)

\* the mux invokes the handler of the pattern that matches the request
ServeMuxDispatch(r, method, path) ==
    /\ gateway.pc = "listening"
    /\ ServeMuxPatterns(path) # {}
    /\ req[r].pc = "idle"
    /\ (IF r = 1 THEN TRUE ELSE req[r - 1].pc # "idle")
    /\ req' = [req EXCEPT ![r] =
                  [IdleReq EXCEPT !.pc = "call", !.depth = 1,
                                  !.RemoteAddr = FirstClient, !.Method = method,
                                  !.Path = path,
                                  !.pattern = ServeMuxPattern(path)]]
    /\ UNCHANGED <<config, route, manager, gateway, limiter, mu, clock, decisions>>

\* the mux has no pattern for the path and answers itself
ServeMuxMiss(r, method, path) ==
    /\ gateway.pc = "listening"
    /\ ServeMuxPatterns(path) = {}
    /\ req[r].pc = "idle"
    /\ (IF r = 1 THEN TRUE ELSE req[r - 1].pc # "idle")
    /\ req' = [req EXCEPT ![r] =
                  [IdleReq EXCEPT !.pc = "done",
                                  !.RemoteAddr = FirstClient, !.Method = method,
                                  !.Path = path,
                                  !.status = IF \E p \in DOMAIN route :
                                                   ServeMuxRedirect(p, path)
                                             THEN StatusMovedPermanently
                                             ELSE StatusNotFound]]
    /\ UNCHANGED <<config, route, manager, gateway, limiter, mu, clock, decisions>>

\* the rate-limit step of the request's route, on the limiter instance of
\* that step: the section between Lock and Unlock as one step, followed by
\* the 429 and the return, or by the call of the wrapped handler
RouteRateLimit(r) ==
    /\ ProcessRuns
    /\ req[r].pc = "call"
    /\ req[r].pattern \in DOMAIN route
    /\ route[req[r].pattern].Handler[req[r].depth].kind = "ratelimit"
    /\ \E now \in clock..MaxTime :
          LET key == LimiterKey(req[r].pattern)
              requests == Prune(limiter[key], req[r].RemoteAddr, now)
              rq == [req[r] EXCEPT !.now = now, !.requests = requests]
              admit == ~LimitExceeded(limiter[key], requests)
          IN  /\ clock' = now
              /\ limiter' = IF admit
                            THEN [limiter EXCEPT ![key] =
                                     StoreClient(@, req[r].RemoteAddr,
                                                 Append(requests, now))]
                            ELSE limiter
              /\ req' = [req EXCEPT ![r] =
                            IF admit THEN CallNext(rq)
                            ELSE [rq EXCEPT !.pc = "done", !.depth = 0,
                                            !.status = StatusTooManyRequests,
                                            !.written = <<StatusTooManyRequests>>]]
              /\ decisions' = Append(decisions,
                                     [client |-> req[r].RemoteAddr, t |-> now,
                                      admit |-> admit, r |-> r])
    /\ UNCHANGED <<config, route, manager, gateway, mu>>

\* the terminal handler of the request's route, from its invocation to its
\* return: 405 for a method outside the route's set, else the path is
\* rewritten and the proxy's answer is written
RouteHandler(r, code) ==
    /\ ProcessRuns
    /\ req[r].pc = "call"
    /\ req[r].pattern \in DOMAIN route
    /\ route[req[r].pattern].Handler[req[r].depth].kind = "proxy"
    /\ LET rt == route[req[r].pattern]
           allowed == req[r].Method \in rt.Methods
           status == IF allowed THEN code ELSE StatusMethodNotAllowed
       IN  req' = [req EXCEPT ![r] =
                      [@ EXCEPT !.pc = "done", !.depth = 0,
                                !.status = status, !.written = <<status>>,
                                !.fwdPath = IF allowed
                                            THEN RewritePath(req[r].Path, rt.Path)
                                            ELSE <<>>]]
    /\ UNCHANGED <<config, route, manager, gateway, limiter, mu, clock, decisions>>

NextNew ==
    \/ initializeRoute
    \/ NewReturn
    \/ Start
    \/ Stop
    \/ StopUnstarted
    \/ MainStopped
    \/ StartFatal
    \/ \E r \in GatewayReqs :
          \/ \E method \in {"GET", "OPTIONS"}, path \in StartPaths :
                \/ ServeMuxDispatch(r, method, path)
                \/ ServeMuxMiss(r, method, path)
          \/ RouteRateLimit(r)
          \/ \E code \in {StatusOK, StatusBadGateway} : RouteHandler(r, code)

SpecNew == InitNew /\ [][NextNew]_vars

(* Chain under the harness of middleware_test.go: Chain(m1, ..., mn)(final) *)

TestNames == {"A", "B", "C"}

TestMiddlewares(names) ==
    [i \in 1..Len(names) |-> Step("test", names[i], i, NoAuthenticator)]

FinalTestHandler == <<Step("final", "final", 0, NoAuthenticator)>>

InitChain ==
    /\ \E n \in 0..MaxChain : \E names \in [1..n -> TestNames] :
          /\ config = TestConfig(names, NoRateLimit)
          /\ route = [Path |-> config.Path, Methods |-> config.Methods,
                      Handler |-> Chain(TestMiddlewares(names), FinalTestHandler)]
    /\ manager = NewManager
    /\ limiter = NewRateLimiter(0, 0)
    /\ gateway = NoServer
    /\ InitRest

NextChain ==
    \E r \in Reqs :
          \/ Arrive(r, FirstClient, "GET", TestPath, NoHeaders)
          \/ TestMiddleware(r)
          \/ FinalHandler(r)
          \/ Return(r)

SpecChain == InitChain /\ [][NextChain]_vars

(* The authenticators under the harness of auth_test.go:                    *)
(* AuthMiddleware(authenticator)(final), the authenticator built from an    *)
(* auth configuration block as Gateway.initialize builds it.                *)

\* byte strings over the alphabet of length at most n
BytesUpTo(alphabet, n) == UNION {[1..k -> alphabet] : k \in 0..n}

Usernames == {<<>>, <<ChLowerA>>, <<ChLowerA, ChColon>>}
Passwords == {<<>>, <<ChLowerP>>, <<ChColon>>, <<ChLowerP, ChColon>>}
Keys == {<<>>, <<ChLowerA>>}

BasicValues(k) == IF k = "username" THEN Usernames ELSE Passwords

\* the config maps of a basic block: each of "username" and "password" set
\* or absent
BasicMaps ==
    UNION {{f \in [d -> Usernames \cup Passwords] :
               \A k \in d : f[k] \in BasicValues(k)} :
           d \in SUBSET {"username", "password"}}

\* the config maps of an apikey block: each of "header" and "key" set or absent
APIKeyMaps ==
    {[header |-> "X-API-Key", key |-> v] : v \in Keys}
    \cup {[k \in {"key"} |-> v] : v \in Keys}
    \cup {[k \in {"header"} |-> "X-API-Key"], [k \in {} |-> <<>>]}

AuthConfigs ==
    {[set |-> TRUE, Type |-> "basic", Config |-> m] : m \in BasicMaps}
    \cup
    {[set |-> TRUE, Type |-> "apikey", Config |-> m] : m \in APIKeyMaps}

\* the credentials http.Request.SetBasicAuth encodes: username ":" password
Payloads == BytesUpTo({ChLowerA, ChLowerP, ChColon}, MaxPayload)

\* a well-formed encoding with the unused bits of the last character set,
\* or with a line break inside
Variants(e) ==
    {e}
    \cup (IF Len(e) >= 4 THEN {SubSeq(e, 1, 2) \o <<ChCR, ChLF>> \o Drop(e, 2)} ELSE {})
    \cup (IF Len(e) >= 4 /\ e[Len(e)] = ChPad /\ e[Len(e) - 1] # ChPad
          THEN {[e EXCEPT ![Len(e) - 1] = EncChar(Sextet(@) + 1)]} ELSE {})
    \cup (IF Len(e) >= 4 /\ e[Len(e) - 1] = ChPad
          THEN {[e EXCEPT ![Len(e) - 2] = EncChar(Sextet(@) + 1)]} ELSE {})

\* encodings the decoder must refuse: cut short, padding missing or
\* misplaced, a character outside the alphabet, data after the padding
Malformed(e) ==
    IF Len(e) < 4 THEN {<<ChBang>>, <<ChPad>>}
    ELSE {SubSeq(e, 1, Len(e) - 1),
          [e EXCEPT ![1] = ChBang],
          [e EXCEPT ![2] = ChPad],
          e \o <<ChPad>>}
         \cup (IF e[Len(e)] = ChPad THEN {e \o <<e[1]>>} ELSE {})

AuthorizationValues ==
    UNION {{prefix \o v : v \in Variants(EncodeToString(p)) \cup Malformed(EncodeToString(p))}
           \cup {lowerBasic \o EncodeToString(p), bearer \o EncodeToString(p),
                 EncodeToString(p)} : p \in Payloads}

AuthHeaders ==
    {NoHeaders}
    \cup {[k \in {"Authorization"} |-> v] : v \in AuthorizationValues \cup {<<>>}}
    \cup {[k \in {"X-API-Key"} |-> v] : v \in {<<>>, <<ChLowerA>>, <<ChLowerP>>}}
    \cup {[k \in {"X-Wrong-Header"} |-> v] : v \in {<<ChLowerA>>}}

InitAuth ==
    /\ \E ac \in AuthConfigs :
          /\ config = [TestConfig(<<"auth">>, NoRateLimit) EXCEPT !.Auth = ac]
          /\ route = [Path |-> config.Path, Methods |-> config.Methods,
                      Handler |-> Apply(FinalTestHandler,
                                        Step("auth", "auth", 1, NewAuthenticator(ac)))]
    /\ manager = NewManager
    /\ limiter = NewRateLimiter(0, 0)
    /\ gateway = NoServer
    /\ InitRest

NextAuth ==
    \/ \E h \in AuthHeaders : Arrive(1, FirstClient, "GET", TestPath, h)
    \/ AuthReject(1)
    \/ AuthPass(1)
    \/ FinalHandler(1)
    \/ Return(1)

SpecAuth == InitAuth /\ [][NextAuth]_vars

(* LoggingMiddleware under the harness of logging_test.go:                  *)
(* LoggingMiddleware(log)(handler), for handlers that write the status any  *)
(* number of times up to MaxWrites.                                         *)

StatusCodes == {StatusOK, StatusNotFound, StatusBadGateway}

CodeSeqs == UNION {[1..n -> StatusCodes] : n \in 0..MaxWrites}

InitLogging ==
    /\ config = TestConfig(<<"logging">>, NoRateLimit)
    /\ \E kind \in {"writer", "upgrade"} :
          route = [Path |-> config.Path, Methods |-> config.Methods,
                   Handler |-> Apply(<<Step(kind, "handler", 0, NoAuthenticator)>>,
                                     Step("logging", "logging", 1, NoAuthenticator))]
    /\ manager = NewManager
    /\ limiter = NewRateLimiter(0, 0)
    /\ gateway = NoServer
    /\ InitRest

NextLogging ==
    \E r \in Reqs :
          \/ \E method \in {"GET", "POST"} :
                Arrive(r, FirstClient, method, TestPath, NoHeaders)
          \/ LoggingServe(r)
          \/ \E codes \in CodeSeqs : WritingHandler(r, codes)
          \/ UpgradeHandler(r)
          \/ LoggingLog(r)

SpecLogging == InitLogging /\ [][NextLogging]_vars

(* The plugin manager and the plugins under the harness of plugin_test.go:  *)
(* plugins are registered in a new manager, then requests are served by     *)
(* manager.Middleware(pluginName)(final).                                   *)

OtherOrigin == <<112>>
ThirdOrigin == <<113>>

\* config["allowedOrigins"] as the tests' Initialize calls give it
CORSOrigins ==
    {NoOrigins,
     [set |-> TRUE, list |-> <<>>],
     [set |-> TRUE, list |-> <<Origin>>],
     [set |-> TRUE, list |-> <<OtherOrigin, Star>>],
     [set |-> TRUE, list |-> <<Origin, OtherOrigin>>]}

\* config["allowedMethods"] and config["allowedHeaders"]: both absent, or
\* lists of two, one and no elements
CORSLists ==
    {<<NoOrigins, NoOrigins>>,
     <<[set |-> TRUE, list |-> <<"GET", "POST">>],
       [set |-> TRUE, list |-> <<"X-Token">>]>>,
     <<[set |-> TRUE, list |-> <<"GET">>], [set |-> TRUE, list |-> <<>>]>>}

\* the plugin instances a test registers
PluginPool ==
    {MockPlugin("plugin1"), MockPlugin("plugin2"),
     ExamplePlugin_Initialize(NewExamplePlugin)}
    \cup {CORSPlugin_Initialize(NewCORSPlugin, o, l[1], l[2]) :
             o \in CORSOrigins, l \in CORSLists}

\* the names the adapter is built for
AdapterNames == {"plugin1", "cors", "example", "non-existent"}

PluginHeaders ==
    {NoHeaders} \cup {[k \in {"Origin"} |-> o] : o \in {Origin, OtherOrigin, ThirdOrigin}}

InitPlugin ==
    /\ \E name \in AdapterNames :
          /\ config = TestConfig(<<name>>, NoRateLimit)
          /\ route = [Path |-> config.Path, Methods |-> config.Methods,
                      Handler |-> Apply(FinalTestHandler,
                                        Step("plugin", name, 1, NoAuthenticator))]
    /\ manager = NewManager
    /\ limiter = NewRateLimiter(0, 0)
    /\ gateway = NoServer
    /\ InitRest

\* manager.RegisterPlugin(p), before the first request, under a new name
ManagerRegisterPlugin(p) ==
    /\ \A r \in Reqs : req[r].pc = "idle"
    /\ p.name \notin DOMAIN manager
    /\ manager' = RegisterPlugin(manager, p)
    /\ UNCHANGED <<config, route, gateway, limiter, mu, clock, req, decisions>>

NextPlugin ==
    \/ \E p \in PluginPool : ManagerRegisterPlugin(p)
    \/ \E r \in 1..MaxPluginReq :
          \/ \E method \in {"GET", "OPTIONS"}, h \in PluginHeaders :
                Arrive(r, FirstClient, method, TestPath, h)
          \/ PluginServe(r)
          \/ FinalHandler(r)
          \/ Return(r)

SpecPlugin == InitPlugin /\ [][NextPlugin]_vars

----------------------------------------------------------------------------
(* Properties of the gateway's routes, checked under Spec *)

\* C1: a request enters the steps of its route in configured order, m0 first
\* and the method check and proxy last, so that a step never runs for a
\* request that an earlier-listed step has short-circuited.
C1_ConfiguredOrder ==
    \A r \in GatewayReqs :
        \A i, j \in 1..Len(req[r].trace) :
            (i < j /\ req[r].trace[i].ev = "in" /\ req[r].trace[j].ev = "in") =>
                \/ req[r].trace[j].name = "proxy"
                \/ /\ req[r].trace[i].name # "proxy"
                   /\ req[r].trace[i].idx < req[r].trace[j].idx

\* request r has entered the handler of the step named name
EnteredStep(r, name) ==
    \E i \in 1..Len(req[r].trace) :
        req[r].trace[i].ev = "in" /\ req[r].trace[i].name = name

\* the route's handler holds a step of this kind
HasStep(kind) == \E i \in 1..Len(Handler) : Handler[i].kind = kind

\* C11: a request that reaches the route's terminal handler with a method
\* outside the allowed set is answered with 405, and the backend is never
\* contacted for it: its path is not rewritten and the proxy is not called.
C11_MethodNotAllowed ==
    \A r \in GatewayReqs :
        (EnteredStep(r, "proxy") /\ req[r].Method \notin route.Methods) =>
            /\ req[r].status = StatusMethodNotAllowed
            /\ req[r].pc # "forward"
            /\ req[r].fwdPath = <<>>

\* an OPTIONS request to a GET-only route behind a logging step has been
\* answered with 405
C11_Witness ==
    \E r \in GatewayReqs :
        /\ req[r].pc = "done"
        /\ req[r].Method = "OPTIONS"
        /\ EnteredStep(r, "proxy")
        /\ EnteredStep(r, "logging")
        /\ req[r].status = StatusMethodNotAllowed

\* the limiter has admitted request r
PassedRateLimit(r) ==
    \E i \in 1..Len(decisions) : decisions[i].r = r /\ decisions[i].admit

\* C12: a request with a method outside the allowed set is answered with 405
\* only after every rate-limit step of the route has admitted it and every
\* auth step has authenticated it; behind nothing but such steps it is
\* answered with 405, 429 or 401; and an admission, whatever the method,
\* stores the request's timestamp as the client's latest.
C12_MethodCheckLast ==
    /\ \A r \in GatewayReqs :
          req[r].Method \notin route.Methods =>
              /\ req[r].status = StatusMethodNotAllowed =>
                    /\ HasStep("ratelimit") => PassedRateLimit(r)
                    /\ HasStep("auth") => req[r].authResult = "true"
              /\ (req[r].pc = "done"
                    /\ \A i \in 1..Len(Handler) :
                          Handler[i].kind \in {"ratelimit", "auth", "proxy"}) =>
                    req[r].status \in {StatusMethodNotAllowed, StatusTooManyRequests,
                                       StatusUnauthorized}
    /\ (decisions # <<>> /\ decisions[Len(decisions)].admit) =>
          LET d == decisions[Len(decisions)]
              ts == ClientRequests(limiter, d.client)
          IN  ts # <<>> /\ ts[Len(ts)] = d.t

\* an OPTIONS request passed the rate-limit and auth steps, got 405, and its
\* timestamp is in the limiter
C12_Witness ==
    \E r \in GatewayReqs :
        /\ req[r].pc = "done"
        /\ req[r].Method = "OPTIONS"
        /\ req[r].status = StatusMethodNotAllowed
        /\ HasStep("ratelimit") /\ HasStep("auth")
        /\ PassedRateLimit(r)
        /\ req[r].now \in Range(ClientRequests(limiter, req[r].RemoteAddr))

\* C14: a route whose auth block names an unsupported type is a fatal
\* configuration error: no gateway is built from it, so no request is ever
\* served on that route.
C14_UnsupportedAuthFatal ==
    (/\ "auth" \in Range(config.Middlewares)
     /\ config.Auth.set
     /\ config.Auth.Type \notin {"basic", "apikey"}) =>
        \A r \in GatewayReqs : req[r].pc = "idle"

\* C20: on a route whose middleware list begins with logging, every request
\* that has been answered has exactly one log record, and the record carries
\* the status the client received, rejections with 429, 401 and 405
\* included.
C20_OneLogRecord ==
    (config.Middlewares # <<>> /\ config.Middlewares[1] = "logging") =>
        \A r \in GatewayReqs :
            req[r].pc = "done" => req[r].logged = <<req[r].status>>

\* the list without the names that are neither a registered plugin nor a
\* built-in
KnownOnly(names) ==
    SelectSeq(names, LAMBDA n : \/ GetPluginOk(pluginManager, n)
                                \/ n \in {"logging", "ratelimit", "auth"})

\* the steps of a handler, without their positions in the configured list
Steps(h) ==
    [i \in 1..Len(h) |-> [kind |-> h[i].kind, name |-> h[i].name, authn |-> h[i].authn]]

\* C30: a middleware name that is neither a registered plugin nor a built-in
\* is skipped when the route is built: the route's handler has the steps it
\* would have were the name not listed, in the same order, no step stands for
\* the unknown name, and the route answers its requests.
C30_UnknownSkipped ==
    KnownOnly(config.Middlewares) # config.Middlewares =>
        /\ Steps(Handler) =
              Steps(initialize([config EXCEPT
                                   !.Middlewares = KnownOnly(@)]).Handler)
        /\ \A i \in 1..Len(Handler) : Handler[i].name # "unknown"
        /\ Handler[Len(Handler)].kind = "proxy"
        /\ \A r \in GatewayReqs :
              /\ \A k \in 1..Len(req[r].trace) : req[r].trace[k].name # "unknown"
              /\ req[r].pc = "done" => req[r].status # 0

\* a route listing an unknown name before logging has forwarded a request and
\* its logging step has logged the backend's answer
C30_Witness ==
    /\ config.Middlewares = <<"unknown", "logging">>
    /\ \E r \in GatewayReqs :
          /\ req[r].pc = "done"
          /\ req[r].fwdPath # <<>>
          /\ req[r].logged = <<StatusOK>>

\* C31: a route that lists auth without an auth block has no auth step, and
\* a route that lists ratelimit without a rateLimit block has no rate-limit
\* step: the route is built, no request to it is authenticated (or counted,
\* or rejected with 429), and a request that nothing else stops reaches the
\* backend.
C31_MissingBlockNoStep ==
    /\ ("auth" \in Range(config.Middlewares) /\ ~config.Auth.set) =>
          /\ ~HasStep("auth")
          /\ Handler[Len(Handler)].kind = "proxy"
          /\ \A r \in GatewayReqs :
                /\ req[r].authResult = "none"
                /\ StatusUnauthorized \notin Range(req[r].written)
    /\ ("ratelimit" \in Range(config.Middlewares) /\ ~config.RateLimit.set) =>
          /\ ~HasStep("ratelimit")
          /\ Handler[Len(Handler)].kind = "proxy"
          /\ decisions = <<>> /\ mu = 0 /\ limiter.clients = << >>
          /\ \A r \in GatewayReqs :
                StatusTooManyRequests \notin Range(req[r].written)
    /\ (/\ Range(config.Middlewares) \subseteq {"auth", "ratelimit"}
        /\ ~config.Auth.set /\ ~config.RateLimit.set) =>
          /\ Handler = ProxyHandler
          /\ \A r \in GatewayReqs :
                (req[r].pc = "done" /\ req[r].Method \in route.Methods) =>
                    req[r].fwdPath # <<>>

\* a route listing ratelimit and auth without either block has forwarded a
\* request that carries no credentials
C31_Witness ==
    /\ config.Middlewares = <<"ratelimit", "auth">>
    /\ ~config.Auth.set /\ ~config.RateLimit.set
    /\ \E r, q \in GatewayReqs :
          /\ r # q
          /\ req[r].pc = "done" /\ req[q].pc = "done"
          /\ req[r].RemoteAddr = req[q].RemoteAddr
          /\ "Authorization" \notin DOMAIN req[r].Header
          /\ req[r].status = StatusOK /\ req[q].status = StatusOK

\* request r has an event ev of the step at position i of the handler
StepEvent(r, ev, i) ==
    \E k \in 1..Len(req[r].trace) :
        /\ req[r].trace[k].ev = ev
        /\ req[r].trace[k].name = Handler[i].name
        /\ req[r].trace[k].idx = Handler[i].idx

\* the terminal handler has answered request r with 405
MethodRejected(r) ==
    /\ req[r].Method \notin route.Methods
    /\ StatusMethodNotAllowed \in Range(req[r].written)

\* C27 as stated: for a request answered with 405 because of its method, the
\* proxy step still executes: the request is handed to the proxy.
C27_ProxyStillExecutes ==
    \A r \in GatewayReqs :
        (MethodRejected(r) /\ req[r].pc = "done") => req[r].fwdPath # <<>>

\* C27 amended: for a request answered with 405 because of its method, the
\* proxy step does not execute: the path is not rewritten and the request is
\* never handed to the proxy.  What still executes is the outer chain: every
\* middleware step of the route was entered before the check, and each of
\* them is left again, 405 being the only status written.
C27_OuterChainRuns ==
    \A r \in GatewayReqs :
        MethodRejected(r) =>
            /\ req[r].fwdPath = <<>>
            /\ req[r].pc # "forward"
            /\ req[r].written = <<StatusMethodNotAllowed>>
            /\ \A i \in 1..(Len(Handler) - 1) : StepEvent(r, "in", i)
            /\ req[r].pc = "done" =>
                  \A i \in 1..Len(Handler) : StepEvent(r, "out", i)

\* a request with a method outside the allowed set has passed a rate-limit
\* and an auth step, has been answered with 405 and has returned through both
C27_Witness ==
    \E r \in GatewayReqs :
        /\ MethodRejected(r)
        /\ req[r].pc = "done"
        /\ Len(Handler) = 3
        /\ HasStep("ratelimit") /\ HasStep("auth")
        /\ Len(req[r].trace) = 6

\* the limiter has taken its decision for request r
Checked(r) == \E i \in 1..Len(decisions) : decisions[i].r = r

\* C26: the limiter's lock is held only by a request inside the
\* prune-check-append sequence: it is free again when the 429 is written,
\* when the wrapped handler is called and while a request waits for the
\* backend, and its holder can always take its next step; so a request
\* waiting for the lock is not kept from it by a request blocked in the
\* backend call.
C26_LockScope ==
    /\ mu # 0 =>
          /\ req[mu].pc \in {"locked", "pruned"}
          /\ CurStep(mu).kind = "ratelimit"
          /\ req[mu].written = <<>>
          /\ ENABLED (RateLimitPrune(mu) \/ RateLimitExceeded(mu) \/ RateLimitAdmit(mu))
    /\ \A r \in GatewayReqs :
          req[r].pc \in {"reject", "forward"} => mu # r
    /\ \A q \in GatewayReqs :
          (At(q, "call", "ratelimit") /\ mu = 0) => ENABLED RateLimitLock(q)

\* one request is blocked in the backend call while a request that arrived
\* after it has been through the limiter's check and has been answered
C26_Witness ==
    \E r, q \in GatewayReqs :
        /\ r < q
        /\ req[r].pc = "forward" /\ PassedRateLimit(r)
        /\ Checked(q) /\ req[q].pc = "done"

\* C22: no request to a route built from the built-in middlewares and the
\* registered cors and example plugins ends in a panic of its goroutine, and
\* a request whose handler has returned has a response written by one of
\* the steps.
C22_NoFault ==
    \A r \in GatewayReqs :
        /\ req[r].pc # "panic"
        /\ req[r].pc = "done" => req[r].status # 0

\* C38: ProcessRequest is invoked on a request only for a plugin instance
\* on which Initialize has been called before (its logger is set).
C38_InitializedBeforeProcess ==
    \A r \in GatewayReqs :
        \A i \in 1..Len(req[r].trace) :
            req[r].trace[i].ev = "process" =>
                /\ req[r].trace[i].name \in DOMAIN manager
                /\ manager[req[r].trace[i].name].logSet

----------------------------------------------------------------------------
(* Properties of the logging step, checked under SpecLogging *)

\* C19: the log record of a request carries the code of the first
\* WriteHeader call of the wrapped handler, later calls changing nothing,
\* and 200 when the wrapped handler never writes a status.
C19_FirstWriteLogged ==
    \A r \in Reqs :
        req[r].pc = "done" =>
            req[r].logged = <<IF req[r].written = <<>> THEN StatusOK
                              ELSE req[r].written[1]>>

\* what the wrapped handler of the harness delivers for request r when it
\* is served without the logging step, given the WriteHeader calls it made
Direct(r) ==
    LET bare == [IdleReq EXCEPT !.depth = 1]
    IN  IF Handler[Len(Handler)].kind = "upgrade" THEN Upgrade(bare)
        ELSE WriteHeaders(bare, req[r].written)

HandlerEntries(r) ==
    {i \in DOMAIN req[r].trace :
        req[r].trace[i] = Event("in", Handler[Len(Handler)])}

\* C34: with the logging step installed, the status code and the headers
\* of the response are those the wrapped handler delivers without it, and
\* the wrapped handler is entered exactly once.
C34_Transparent ==
    \A r \in Reqs :
        req[r].pc = "done" =>
            /\ req[r].status = Direct(r).status
            /\ req[r].respHeader = Direct(r).respHeader
            /\ Cardinality(HandlerEntries(r)) = 1

\* the part of C34 that holds: handlers that use only Header, Write and
\* WriteHeader of the writer
C34_TransparentBase ==
    \A r \in Reqs :
        req[r].pc = "done" /\ Handler[Len(Handler)].kind = "writer" =>
            /\ req[r].status = Direct(r).status
            /\ req[r].respHeader = Direct(r).respHeader
            /\ Cardinality(HandlerEntries(r)) = 1

----------------------------------------------------------------------------
(* Properties of the started gateway, checked under SpecStart *)

\* C13: through the started gateway, a request whose path starts with the
\* route's path and whose method is allowed, on a route without blocking
\* middleware, is forwarded with the prefix stripped; a path equal to the
\* route's path is forwarded as "/".
C13_PrefixForwarded ==
    \A r \in GatewayReqs :
        (/\ req[r].pc = "done"
         /\ HasPrefix(req[r].Path, route.Path)
         /\ req[r].Method \in route.Methods) =>
            req[r].fwdPath = IF req[r].Path = route.Path THEN <<"/">>
                             ELSE Drop(req[r].Path, Len(route.Path))

\* C21: Stop lets the requests in flight drain: no request that is being
\* handled when Stop is invoked has its connection closed under it, and a
\* request whose handler has finished has had its response delivered.
C21_StopDrains ==
    \A r \in GatewayReqs :
        /\ req[r].conn = "open"
        /\ req[r].pc = "done" => Delivered(r)

\* C28: a request whose path does not start with the route's path gets the
\* not-found response, and no step of the route (middleware, method check,
\* forward) runs for it.
C28_NotFound ==
    \A r \in GatewayReqs :
        (req[r].pc # "idle" /\ ~HasPrefix(req[r].Path, route.Path)) =>
            /\ req[r].pc = "done"
            /\ req[r].status = StatusNotFound
            /\ req[r].trace = <<>>
            /\ req[r].fwdPath = <<>>

\* the proxy has sent request r on
Forwarded(r) == req[r].fwdPath # <<>>

\* C39: whether or not the route's path ends with a slash, a request whose
\* path starts with it is sent to the backend with a path that begins
\* with "/".
C39_BackendPathRooted ==
    \A r \in GatewayReqs :
        (Forwarded(r) /\ HasPrefix(req[r].Path, route.Path)) =>
            /\ req[r].backendPath # <<>>
            /\ req[r].backendPath[1] = "/"
            /\ req[r].backendPath =
                  (IF config.TargetPath \in {<<>>, <<"/">>} THEN <<>>
                   ELSE <<"/", "x">>)
                  \o (IF req[r].fwdPath[1] = "/" THEN <<>> ELSE <<"/">>)
                  \o req[r].fwdPath

\* route "/a/", target without a path: the request for "/a/u" is handed to
\* the proxy with the path "u" and sent to the backend with "/u"
C39_Witness ==
    \E r \in GatewayReqs :
        /\ route.Path = <<"/", "a", "/">>
        /\ config.TargetPath = <<>>
        /\ req[r].Path = <<"/", "a", "/", "u">>
        /\ req[r].fwdPath = <<"u">>
        /\ req[r].backendPath = <<"/", "u">>
        /\ req[r].pc = "done"

----------------------------------------------------------------------------
(* Properties of New and initialize, checked under SpecNew *)

\* the positions of the configured routes whose target does not parse
BadRoutes == {i \in 1..Len(config) : urlParseErr(config[i].Target)}

\* C29: when a configured route has a target that does not parse,
\* initialize stops with the error at the first such route, New returns no
\* gateway, so the server is never started, and no request is ever served,
\* not even by a route processed before the bad one.
C29_BadTargetFatal ==
    BadRoutes # {} =>
        /\ gateway.pc \in {"initialize", "failed"}
        /\ \A i \in BadRoutes : gateway.i <= i
        /\ gateway.pc = "failed" => gateway.i \in BadRoutes
        /\ \A r \in Reqs : req[r] = IdleReq

\* initialize has returned the error with a route already in g.routes
C29_Witness ==
    /\ gateway.pc = "failed"
    /\ gateway.i = 2
    /\ DOMAIN route # {}

\* the position of the last configured route with this path
LastWithPath(p) ==
    CHOOSE i \in 1..Len(config) :
        /\ config[i].Path = p
        /\ \A j \in 1..Len(config) : config[j].Path = p => j <= i

\* C33: once New has returned the gateway, the route table and the plugin
\* registry are frozen: the table holds, for every configured path, the Route
\* that initialize built from its configuration, and no step of Start, of
\* Stop or of the handling of a request changes the table, a route's path,
\* methods or handler, the configuration or the registered plugins.
C33_Frozen ==
    /\ [](gateway.pc \notin {"initialize", "failed"} =>
             /\ DOMAIN route = {config[i].Path : i \in 1..Len(config)}
             /\ \A p \in DOMAIN route :
                   route[p] = initialize(config[LastWithPath(p)])
             /\ manager = pluginManager)
    /\ [][gateway.pc # "initialize" =>
             /\ route' = route
             /\ manager' = manager
             /\ config' = config]_vars

\* the gateway has served a request of each of two routes and been stopped
C33_Witness ==
    /\ gateway.pc = "closed"
    /\ Cardinality(DOMAIN route) = 2
    /\ \E r, q \in GatewayReqs :
          /\ req[r].pc = "done" /\ req[q].pc = "done"
          /\ req[r].pattern # req[q].pattern
          /\ req[r].fwdPath # <<>> /\ req[q].fwdPath # <<>>

\* the route that served the request of decision k
DecisionRoute(k) == req[decisions[k].r].pattern

\* the number of requests of the client of decision k that the rate-limit
\* step of the same route admitted before it, no older than the window
SameRouteAdmittedBefore(k) ==
    Cardinality({j \in 1..(k - 1) :
                    /\ decisions[j].client = decisions[k].client
                    /\ DecisionRoute(j) = DecisionRoute(k)
                    /\ decisions[j].admit
                    /\ decisions[k].t - decisions[j].t
                          <= limiter[LimiterKey(DecisionRoute(k))].window})

\* C32: every rate-limit step has the limiter that was created for it when
\* its route was built: a decision counts the client's earlier admitted
\* requests to the same route, all of them and no request to another route;
\* once the gateway is built no limiter is created or replaced, and a
\* limiter's state changes only in a step of a request to its route.
C32_LimiterPerRoute ==
    /\ [](\A k \in 1..Len(decisions) :
             decisions[k].admit <=>
                 SameRouteAdmittedBefore(k)
                     < limiter[LimiterKey(DecisionRoute(k))].limit)
    /\ [][gateway.pc # "initialize" =>
             /\ DOMAIN limiter' = DOMAIN limiter
             /\ \A p \in DOMAIN limiter :
                   limiter'[p] # limiter[p] =>
                       /\ limiter'[p].limit = limiter[p].limit
                       /\ limiter'[p].window = limiter[p].window
                       /\ \E r \in GatewayReqs :
                             /\ LimiterKey(req[r].pattern) = p
                             /\ req[r].pc = "call" /\ req'[r].depth = 2]_vars

\* a client that has used up its quota of one route is admitted by the
\* limiter of another route at the same time
C32_Witness ==
    /\ Len(decisions) = 2
    /\ decisions[1].client = decisions[2].client
    /\ decisions[1].t = decisions[2].t
    /\ DecisionRoute(1) # DecisionRoute(2)
    /\ decisions[1].admit /\ decisions[2].admit
    /\ \A p \in DOMAIN limiter :
          Len(ClientRequests(limiter[p], decisions[1].client)) = limiter[p].limit

\* C40: on a shutdown by Stop the return of Start is not taken for a start
\* failure: the process never takes the fatal exit.
C40_NoFatalOnShutdown == gateway.pc # "fatal"

\* the parts of C40 that hold: after Stop the sequence can reach "Gateway
\* stopped."; Stop before the server exists changes nothing but the position
\* of main
C40_StopUnstartedNoOp ==
    [][(gateway.pc = "built" /\ gateway'.pc = "stopped") =>
           UNCHANGED <<config, route, manager, limiter, mu, clock, req, decisions>>]_vars

----------------------------------------------------------------------------
(* Properties of the plugin manager and the plugins, checked under SpecPlugin *)

\* the number of events ev of the step named name in the trace of request r
Count(r, ev, name) ==
    Cardinality({i \in 1..Len(req[r].trace) :
                    req[r].trace[i].ev = ev /\ req[r].trace[i].name = name})

\* the name the adapter under test was built for
AdapterName == Handler[1].name

\* the wrapped handler has been invoked once, or is about to be
NextOnce(r) ==
    Count(r, "in", "final") = (IF req[r].pc = "call" THEN 0 ELSE 1)

\* C15: when the named plugin is absent from the registry the adapter
\* invokes next exactly once, no plugin runs and the response is the one
\* next produces; when it is present its ProcessRequest is invoked exactly
\* once.
C15_AdapterFailsOpen ==
    \A r \in Reqs :
        Count(r, "in", AdapterName) = 1 =>
            IF GetPlugin(manager, AdapterName).ok
            THEN Count(r, "process", AdapterName) = 1
            ELSE /\ Count(r, "process", AdapterName) = 0
                 /\ NextOnce(r)
                 /\ req[r].pc = "done" =>
                       req[r].status = StatusOK /\ req[r].respHeader = {}

\* a request for a plugin that is not registered, other plugins being
\* registered, has been answered by the wrapped handler
C15_Witness ==
    \E r \in Reqs :
        /\ req[r].pc = "done"
        /\ AdapterName = "non-existent"
        /\ Cardinality(DOMAIN manager) = 2
        /\ req[r].status = StatusOK

AllPluginNames == {p.name : p \in PluginPool} \cup AdapterNames

\* C16: the registry starts empty, and a registration under a new name
\* makes GetPlugin return that very instance with ok = true, adds exactly
\* one entry and leaves the answer for every other name as it was; so a
\* name never registered is answered with ok = false.
C16_Registry ==
    /\ \A n \in AllPluginNames : ~GetPlugin(manager, n).ok
    /\ [][manager' # manager =>
            \E p \in PluginPool :
                /\ ~GetPlugin(manager, p.name).ok
                /\ GetPlugin(manager', p.name) = [plugin |-> p, ok |-> TRUE]
                /\ Cardinality(DOMAIN manager') = Cardinality(DOMAIN manager) + 1
                /\ \A n \in AllPluginNames \ {p.name} :
                      GetPlugin(manager', n) = GetPlugin(manager, n)]_vars

\* three plugins are registered, each found under its name, and a name that
\* was never registered is not found
C16_Witness ==
    /\ Cardinality(DOMAIN manager) = 3
    /\ GetPlugin(manager, "plugin1") = [plugin |-> MockPlugin("plugin1"), ok |-> TRUE]
    /\ GetPlugin(manager, "plugin2") = [plugin |-> MockPlugin("plugin2"), ok |-> TRUE]
    /\ GetPlugin(manager, "cors").ok
    /\ ~GetPlugin(manager, "non-existent").ok

\* the CORS plugin has processed request r
CORSProcessed(r) ==
    /\ AdapterName = "cors"
    /\ GetPlugin(manager, "cors").ok
    /\ Count(r, "process", "cors") = 1

\* the request's Origin is in the plugin's allowed set: exact match or "*"
AllowedOrigin(r) ==
    LET list == Range(manager["cors"].allowedOrigins)
    IN  /\ "Origin" \in DOMAIN req[r].Header
        /\ req[r].Header["Origin"] # <<>>
        /\ (Star \in list \/ req[r].Header["Origin"] \in list)

\* C17: an OPTIONS request with an allowed Origin is answered by the CORS
\* step with 200 and the three CORS headers, and the wrapped handler is not
\* invoked.
C17_Preflight ==
    \A r \in Reqs :
        (CORSProcessed(r) /\ req[r].Method = "OPTIONS" /\ AllowedOrigin(r)) =>
            /\ req[r].pc = "done"
            /\ req[r].status = StatusOK
            /\ CORSHeaders \subseteq req[r].respHeader
            /\ Count(r, "in", "final") = 0

\* a preflight request whose Origin is allowed by the wildcard listed second
C17_Witness ==
    \E r \in Reqs :
        /\ CORSProcessed(r) /\ req[r].Method = "OPTIONS" /\ AllowedOrigin(r)
        /\ manager["cors"].allowedOrigins = <<OtherOrigin, Star>>
        /\ req[r].Header["Origin"] = ThirdOrigin
        /\ req[r].status = StatusOK

\* C18: a request without Origin, or with an Origin outside the allowed set,
\* is passed to the wrapped handler exactly once and the CORS step sets none
\* of the three CORS headers, whatever the method.
C18_Advisory ==
    \A r \in Reqs :
        (CORSProcessed(r) /\ ~AllowedOrigin(r)) =>
            /\ NextOnce(r)
            /\ req[r].respHeader \cap CORSHeaders = {}
            /\ req[r].pc = "done" => req[r].status = StatusOK

\* an OPTIONS request with an Origin outside a non-empty allowed list has
\* been answered by the wrapped handler
C18_Witness ==
    \E r \in Reqs :
        /\ CORSProcessed(r) /\ ~AllowedOrigin(r)
        /\ req[r].Method = "OPTIONS"
        /\ manager["cors"].allowedOrigins = <<Origin, OtherOrigin>>
        /\ req[r].Header = [k \in {"Origin"} |-> ThirdOrigin]
        /\ req[r].pc = "done"

\* C35: for a request other than OPTIONS with an allowed Origin the CORS
\* step sets Access-Control-Allow-Origin to the request's Origin, also when
\* the origin is allowed by "*", sets Access-Control-Allow-Methods and
\* Access-Control-Allow-Headers to the configured lists joined by ", ", and
\* invokes the wrapped handler exactly once.
C35_CORSHeaderValues ==
    \A r \in Reqs :
        (CORSProcessed(r) /\ req[r].Method # "OPTIONS" /\ AllowedOrigin(r)) =>
            /\ req[r].respValue =
                  [k \in CORSHeaders |->
                      IF k = "Access-Control-Allow-Origin"
                      THEN req[r].Header["Origin"]
                      ELSE IF k = "Access-Control-Allow-Methods"
                      THEN Join(manager["cors"].allowedMethods, ", ")
                      ELSE Join(manager["cors"].allowedHeaders, ", ")]
            /\ NextOnce(r)
            /\ req[r].pc = "done" => req[r].status = StatusOK

\* a GET request whose Origin only the wildcard allows has been served
\* with the configured two methods joined and its own Origin echoed
C35_Witness ==
    \E r \in Reqs :
        /\ CORSProcessed(r) /\ req[r].Method = "GET" /\ AllowedOrigin(r)
        /\ manager["cors"].allowedOrigins = <<OtherOrigin, Star>>
        /\ req[r].Header["Origin"] = ThirdOrigin
        /\ req[r].respValue["Access-Control-Allow-Origin"] = ThirdOrigin
        /\ req[r].respValue["Access-Control-Allow-Methods"] = <<"GET", ", ", "POST">>
        /\ req[r].respValue["Access-Control-Allow-Headers"] = <<"X-Token">>
        /\ req[r].pc = "done"

----------------------------------------------------------------------------
(* Properties of the rate limiter, checked under SpecRateLimit *)

\* the decisions taken for one client, oldest first
DecisionsOf(c) == SelectSeq(decisions, LAMBDA d : d.client = c)

Rejected(r) == \E i \in 1..Len(decisions) : decisions[i].r = r /\ ~decisions[i].admit
Admitted(r) == \E i \in 1..Len(decisions) : decisions[i].r = r /\ decisions[i].admit

\* the handler that the rate-limit step wraps was invoked for request r
NextInvoked(r) == \E i \in 1..Len(req[r].trace) :
                      req[r].trace[i].ev = "in" /\ req[r].trace[i].name = "final"

\* C3: with limit L >= 1, of the checks of one client that lie within one
\* window of that client's first check, the first L are admitted and all
\* later ones are rejected; an admitted request is answered by the wrapped
\* handler and a rejected one with 429.
C3_FirstLAdmitted ==
    limiter.limit >= 1 =>
        \A c \in Clients :
            LET ds == DecisionsOf(c)
            IN  \A k \in 1..Len(ds) :
                    ds[k].t - ds[1].t <= limiter.window =>
                        /\ ds[k].admit <=> (k <= limiter.limit)
                        /\ req[ds[k].r].pc = "done" =>
                              req[ds[k].r].status =
                                  IF k <= limiter.limit THEN StatusOK
                                  ELSE StatusTooManyRequests

C3_Witness ==
    /\ limiter.limit = 2
    /\ \E c \in Clients :
          LET ds == DecisionsOf(c)
          IN  /\ Len(ds) = 3
              /\ ds[3].t - ds[1].t <= limiter.window
              /\ ds[1].admit /\ ds[2].admit /\ ~ds[3].admit
              /\ \A k \in 1..3 : req[ds[k].r].pc = "done"

\* the number of admitted requests of client c with a timestamp in [a, b]
AdmittedIn(c, a, b) ==
    Cardinality({i \in 1..Len(decisions) :
                    /\ decisions[i].client = c
                    /\ decisions[i].admit
                    /\ decisions[i].t >= a
                    /\ decisions[i].t <= b})

\* C4: whatever the interleaving of the requests, no client has more than
\* limit admitted requests with timestamps in any interval of length window.
C4_WindowNeverExceeded ==
    \A c \in Clients : \A a \in 0..MaxTime :
        AdmittedIn(c, a, a + limiter.window) <= limiter.limit

\* a request holds the lock while another request of the same client, whose
\* quota is used up, waits for it
C4_Witness ==
    /\ limiter.limit >= 1
    /\ \E r, q \in Reqs :
          /\ r # q
          /\ mu = r
          /\ req[q].pc = "call" /\ req[q].depth = 1
          /\ req[q].RemoteAddr = req[r].RemoteAddr
          /\ AdmittedIn(req[r].RemoteAddr, clock - limiter.window, clock)
                 = limiter.limit

\* C5: with limit >= 1, a check made more than window after the client's
\* most recent admitted request (or with no admitted request before it) is
\* admitted.
C5_AdmittedAfterWindow ==
    limiter.limit >= 1 =>
        \A c \in Clients :
            LET ds == DecisionsOf(c)
            IN  \A k \in 1..Len(ds) :
                    (\A j \in 1..(k - 1) :
                        ds[j].admit => ds[k].t - ds[j].t > limiter.window)
                    => ds[k].admit

\* admitted, rejected, and admitted again once the window has passed
C5_Witness ==
    /\ limiter.limit >= 1
    /\ \E c \in Clients :
          LET ds == DecisionsOf(c)
          IN  /\ Len(ds) = 3
              /\ ds[1].admit /\ ~ds[2].admit /\ ds[3].admit
              /\ ds[3].t - ds[1].t > limiter.window

\* C6: a request the limiter rejected gets 429 and the wrapped handler is
\* never invoked for it.
C6_RejectIs429 ==
    \A r \in Reqs :
        Rejected(r) =>
            /\ ~NextInvoked(r)
            /\ req[r].depth <= 1
            /\ req[r].pc = "done" => req[r].status = StatusTooManyRequests

C6_Witness ==
    \E r \in Reqs :
        Rejected(r) /\ req[r].pc = "done" /\ req[r].status = StatusTooManyRequests

\* C7: the step that rejects a request leaves the limiter as it was: no
\* timestamp is recorded for the rejected request.
C7_RejectLeavesState ==
    [][(\E r \in Reqs : req[r].pc = "pruned" /\ req'[r].pc = "reject")
          => limiter' = limiter]_vars

\* a request was rejected while its client has timestamps stored
C7_Witness ==
    \E r \in Reqs :
        /\ req[r].pc = "reject"
        /\ ClientRequests(limiter, req[r].RemoteAddr) # <<>>

\* the number of requests of the client of decision k admitted before it and
\* no older than the window at its time
OwnAdmittedBefore(k) ==
    Cardinality({j \in 1..(k - 1) :
                    /\ decisions[j].client = decisions[k].client
                    /\ decisions[j].admit
                    /\ decisions[k].t - decisions[j].t <= limiter.window})

\* request r of client c stores its timestamp in this step
StoresFor(r, c) ==
    req[r].RemoteAddr = c /\ req[r].pc = "pruned" /\ req'[r].pc = "call"

\* C24: the limiter's state is keyed by the remote address with its port,
\* and clients are independent: every decision is a function of the earlier
\* admitted requests of the same address only, and the timestamps stored for
\* an address change only in a step of a request from that address.
C24_ClientsIndependent ==
    /\ [](\A k \in 1..Len(decisions) :
             decisions[k].admit <=> OwnAdmittedBefore(k) < limiter.limit)
    /\ [][\A c \in Clients :
             ClientRequests(limiter', c) # ClientRequests(limiter, c) =>
                 \E r \in Reqs : StoresFor(r, c)]_vars

\* one address has used up its quota and been rejected; a request from the
\* same host and another port is admitted at the same time
C24_Witness ==
    \E i, j, k \in 1..Len(decisions) :
        /\ i < j /\ j < k
        /\ decisions[i].client = decisions[j].client
        /\ decisions[k].client # decisions[i].client
        /\ decisions[i].admit /\ ~decisions[j].admit /\ decisions[k].admit
        /\ decisions[k].t = decisions[i].t
        /\ ClientRequests(limiter, decisions[i].client) # <<>>
        /\ ClientRequests(limiter, decisions[k].client) # <<>>

\* the time of the latest check of client c
LastCheck(c) == DecisionsOf(c)[Len(DecisionsOf(c))].t

\* C25: once a client has been checked, admitted or rejected, every
\* timestamp stored for it is no older than the window at the time of its
\* latest check; and a timestamp leaves a client's list only in a check of
\* that client.
C25_StoredWithinWindow ==
    /\ [](\A c \in Clients :
             DecisionsOf(c) # <<>> =>
                 \A t \in Range(ClientRequests(limiter, c)) :
                     LastCheck(c) - t <= limiter.window)
    /\ [][\A c \in Clients :
             (\E t \in Range(ClientRequests(limiter, c)) :
                 t \notin Range(ClientRequests(limiter', c))) =>
                     \E r \in Reqs : StoresFor(r, c)]_vars

\* a check has dropped an expired timestamp of its client, while an expired
\* timestamp of the other client, which was not checked since, is still stored
C25_Witness ==
    \E c, d \in Clients :
        /\ c # d
        /\ \E i \in 1..Len(decisions) :
              /\ decisions[i].client = c /\ decisions[i].admit
              /\ decisions[i].t \notin Range(ClientRequests(limiter, c))
        /\ \E t \in Range(ClientRequests(limiter, d)) : clock - t > limiter.window

\* C36: the limiter never evicts a client: a client has an entry in the map
\* exactly when one of its requests has been admitted, no step removes a
\* key, and a step changes an entry only by dropping timestamps and
\* appending the time of the check.
C36_NeverEvicts ==
    /\ [](\A c \in Clients :
             c \in DOMAIN limiter.clients <=>
                 \E k \in 1..Len(decisions) :
                     decisions[k].client = c /\ decisions[k].admit)
    /\ [][\A c \in DOMAIN limiter.clients :
             /\ c \in DOMAIN limiter'.clients
             /\ Range(limiter'.clients[c])
                    \subseteq Range(limiter.clients[c]) \cup {clock}]_vars

\* a client whose only timestamp has expired still has its entry, after a
\* later request of the other client was admitted and stored
C36_Witness ==
    \E c, d \in DOMAIN limiter.clients :
        /\ c # d
        /\ \A t \in Range(limiter.clients[c]) : clock - t > limiter.window
        /\ \E i, j \in 1..Len(decisions) :
              /\ i < j
              /\ decisions[i].client = c /\ decisions[i].admit
              /\ decisions[j].client = d /\ decisions[j].admit
              /\ decisions[j].t - decisions[i].t > limiter.window

\* C37: for a limit of 0 or more no client has more than limit timestamps
\* stored; for a limit of 0 or less every request is rejected, the wrapped
\* handler never runs and the map stays empty.
C37_StoredAtMostLimit ==
    /\ limiter.limit >= 0 =>
          \A c \in DOMAIN limiter.clients :
              Len(limiter.clients[c]) <= limiter.limit
    /\ limiter.limit <= 0 =>
          /\ DOMAIN limiter.clients = {}
          /\ \A k \in 1..Len(decisions) : ~decisions[k].admit
          /\ \A r \in Reqs :
                /\ Count(r, "in", "final") = 0
                /\ req[r].pc = "done" => req[r].status = StatusTooManyRequests

\* under a negative limit two requests have been rejected
C37_Witness ==
    /\ limiter.limit < 0
    /\ \E r, q \in Reqs :
          /\ r # q
          /\ req[r].pc = "done" /\ req[r].status = StatusTooManyRequests
          /\ req[q].pc = "done" /\ req[q].status = StatusTooManyRequests

----------------------------------------------------------------------------
(* Properties of Chain, checked under SpecChain *)

IsPrefix(s, t) == Len(s) <= Len(t) /\ SubSeq(t, 1, Len(s)) = s

\* the run of Chain(m1, ..., mn)(final) that the declared order prescribes:
\* in m1 .. in mn, the final handler, out mn .. out m1
ExpectedChainTrace(names) ==
    LET n == Len(names)
    IN  [i \in 1..n |-> [ev |-> "in", name |-> names[i], idx |-> i]]
        \o <<[ev |-> "in", name |-> "final", idx |-> 0],
             [ev |-> "out", name |-> "final", idx |-> 0]>>
        \o [i \in 1..n |-> [ev |-> "out", name |-> names[n + 1 - i], idx |-> n + 1 - i]]

\* C2: a handler built by Chain enters its steps in declared order, then the
\* terminal handler, and leaves them in the reverse order.
C2_ChainOrder ==
    \A r \in Reqs :
        /\ IsPrefix(req[r].trace, ExpectedChainTrace(config.Middlewares))
        /\ req[r].pc = "done" =>
              req[r].trace = ExpectedChainTrace(config.Middlewares)

\* a request has run through Chain(A, B, C)(final)
C2_Witness ==
    /\ config.Middlewares = <<"A", "B", "C">>
    /\ \E r \in Reqs : req[r].pc = "done" /\ Len(req[r].trace) = 8

\* C23: Chain with no steps is the identity: Chain()(H) is H, and a request
\* served by Chain()(final) gets what the final handler alone gives it: the
\* final handler runs once and nothing else runs, the status is the final
\* handler's 200 and no header is added.
C23_EmptyChainIdentity ==
    /\ \A names \in [1..1 -> TestNames] :
          Chain(<<>>, Chain(TestMiddlewares(names), FinalTestHandler))
              = <<Step("test", names[1], 1, NoAuthenticator)>> \o FinalTestHandler
    /\ config.Middlewares = <<>> =>
          /\ Handler = FinalTestHandler
          /\ \A r \in Reqs :
                /\ Len(req[r].trace) <= 2
                /\ \A i \in 1..Len(req[r].trace) : req[r].trace[i].name = "final"
                /\ req[r].respHeader = {}
                /\ req[r].pc = "done" =>
                      /\ req[r].trace = <<[ev |-> "in", name |-> "final", idx |-> 0],
                                          [ev |-> "out", name |-> "final", idx |-> 0]>>
                      /\ req[r].written = <<StatusOK>>
                      /\ req[r].status = StatusOK

\* a request has run through Chain()(final)
C23_Witness ==
    /\ config.Middlewares = <<>>
    /\ \E r \in Reqs : req[r].pc = "done" /\ req[r].status = StatusOK

----------------------------------------------------------------------------
(* Properties of the authentication step, checked under SpecAuth *)

Authn == Handler[1].authn

\* C8: when the authenticator returns false the response is 401 and the
\* wrapped handler is not invoked; when it returns true the wrapped handler
\* is invoked exactly once and the response is not a 401.
C8_AuthMiddleware ==
    \A r \in Reqs :
        /\ req[r].authResult = "false" =>
              /\ ~NextInvoked(r)
              /\ req[r].pc = "done" /\ req[r].status = StatusUnauthorized
        /\ req[r].authResult = "true" =>
              /\ req[r].pc = "call" \/ NextInvoked(r)
              /\ Cardinality({i \in 1..Len(req[r].trace) :
                                 req[r].trace[i] = [ev |-> "in", name |-> "final", idx |-> 0]})
                    = (IF req[r].pc = "call" THEN 0 ELSE 1)
              /\ req[r].status # StatusUnauthorized
              /\ req[r].pc = "done" => req[r].status = StatusOK

\* a request with the wrong key has been answered with 401
C8_Witness ==
    \E r \in Reqs :
        /\ req[r].pc = "done"
        /\ req[r].authResult = "false"
        /\ Authn.type = "apikey"
        /\ Authn.header \in DOMAIN req[r].Header
        /\ req[r].status = StatusUnauthorized

\* e is a base64 encoding of the bytes p as the standard decoder reads it:
\* line breaks apart, it is the standard encoding of p, up to the bits of
\* the last character that carry no data
IsBase64Of(e, p) ==
    LET s == StripNewlines(e)
        c == EncodeToString(p)
        last == IF Len(p) % 3 = 1 THEN Len(c) - 2
                ELSE IF Len(p) % 3 = 2 THEN Len(c) - 1 ELSE 0
        unused == IF Len(p) % 3 = 1 THEN 16 ELSE 4
    IN  /\ Len(s) = Len(c)
        /\ \A i \in 1..Len(s) :
              \/ s[i] = c[i]
              \/ /\ i = last
                 /\ Sextet(s[i]) >= 0
                 /\ Sextet(s[i]) \div unused = Sextet(c[i]) \div unused

\* the header is "Basic " and an encoding of username ":" password, the
\* user name being what stands before the first colon
ValidBasicCredentials(h, username, password) ==
    /\ "Authorization" \in DOMAIN h
    /\ HasPrefix(h["Authorization"], prefix)
    /\ ChColon \notin Range(username)
    /\ IsBase64Of(Drop(h["Authorization"], Len(prefix)),
                  username \o <<ChColon>> \o password)

\* C9: BasicAuthenticator.Authenticate returns true exactly when the
\* Authorization header is "Basic " followed by a base64 encoding of
\* user:pass with the configured user before the first colon and the
\* configured password after it, and false in every other case.
C9_BasicAuthenticate ==
    \A r \in Reqs :
        (Authn.type = "basic" /\ req[r].authResult # "none") =>
            ((req[r].authResult = "true")
                <=> ValidBasicCredentials(req[r].Header, Authn.username, Authn.password))

\* accepted: a password that holds a colon, sent in an encoding with a line
\* break in it
C9_Witness ==
    \E r \in Reqs :
        /\ Authn.type = "basic"
        /\ req[r].authResult = "true"
        /\ ChColon \in Range(Authn.password)
        /\ Authn.username # <<>>
        /\ ChLF \in Range(req[r].Header["Authorization"])

\* C10: APIKeyAuthenticator.Authenticate succeeds only when the request
\* carries the configured header with a value equal to the configured key;
\* a request without the configured header fails under every configuration.
C10_APIKeyNeedsHeader ==
    \A r \in Reqs :
        (Authn.type = "apikey" /\ req[r].authResult = "true") =>
            /\ Authn.header \in DOMAIN req[r].Header
            /\ req[r].Header[Authn.header] = Authn.key

====
